---- MODULE Spec2Model ----
(***************************************************************************)
(* Gravity wells: a test particle moving through fixed wells (src/src) and *)
(* the mutually attracting three-body system (src/example).                *)
(*                                                                         *)
(* f32 values are modelled as fixed-point integers with ONE units per 1.0; *)
(* products and quotients are rounded towards zero, and operands too large *)
(* for an exact product are scaled down first (a float keeps its relative, *)
(* not its absolute, precision).  The loop budgets SIMULATION_TIMESTEPS    *)
(* and SUBSTEPS are scaled down, and the frame time is scaled up with them *)
(* so that a run of a few substeps covers the distances of the scenario.   *)
(***************************************************************************)
EXTENDS Integers, Sequences, FiniteSets, TLC

(***************************************************************************)
(* Number representation                                                   *)
(***************************************************************************)
ONE == 16

Abs(a) == IF a < 0 THEN -a ELSE a
Max(a, b) == IF a >= b THEN a ELSE b

\* f32 division, rounded towards zero.
TDiv(a, b) ==
    IF (a >= 0) = (b > 0) THEN Abs(a) \div Abs(b) ELSE -(Abs(a) \div Abs(b))

\* The largest operand whose square is still exact.
EXACT == 32768

\* The f32 value NaN: it is what 0.0 / 0.0 yields, every sum, product and
\* quotient of it is NaN again, and it is neither equal to nor less than
\* any value.
NaN == 2147483647

FAdd(a, b) == IF a = NaN \/ b = NaN THEN NaN ELSE a + b
FSub(a, b) == IF a = NaN \/ b = NaN THEN NaN ELSE a - b

FMul(a, b) ==
    IF a = NaN \/ b = NaN THEN NaN
    ELSE IF Abs(a) < EXACT /\ Abs(b) < EXACT THEN TDiv(a * b, ONE)
    ELSE IF Abs(a) >= Abs(b) THEN TDiv(a, ONE) * b
    ELSE a * TDiv(b, ONE)

\* A zero divisor is met with a zero dividend only (the force on a body of
\* mass zero is zero): 0.0 / 0.0.
FDiv(a, b) ==
    IF a = NaN \/ b = NaN \/ (a = 0 /\ b = 0) THEN NaN
    ELSE IF Abs(a) < EXACT * (EXACT \div ONE) THEN TDiv(a * ONE, b)
    ELSE TDiv(a, b) * ONE

Fx(n) == n * ONE

\* Heron's iteration from above: x decreases to the integer square root.
RECURSIVE SqrtFrom(_, _)
SqrtNext(n, x, y) == IF y >= x THEN x ELSE SqrtFrom(n, y)
SqrtFrom(n, x) == SqrtNext(n, x, (x + n \div x) \div 2)

SqrtStart(n) ==
    IF n < 256 THEN 16 ELSE IF n < 65536 THEN 256
    ELSE IF n < 16777216 THEN 4096 ELSE 46341

\* f32::sqrt on a non-negative value: the largest r with r*r <= n.
ISqrt(n) == IF n = 0 THEN 0 ELSE SqrtFrom(n, SqrtStart(n))

(***************************************************************************)
(* Option<T>                                                               *)
(***************************************************************************)
None == << >>
Some(v) == << v >>
IsSome(o) == o # None
Unwrap(o) == o[1]

(***************************************************************************)
(* physics.rs: Vec2                                                        *)
(***************************************************************************)
Vec2(x, y) == [x |-> x, y |-> y]

\* (x*x + y*y).sqrt(); the raw sum of squares has scale ONE*ONE.
Sq(a) == a * a
LengthAtScale(v, k) == k * ISqrt(Sq(TDiv(v.x, k)) + Sq(TDiv(v.y, k)))
length(v) ==
    IF v.x = NaN \/ v.y = NaN THEN NaN
    ELSE LengthAtScale(v, (Max(Abs(v.x), Abs(v.y)) \div (EXACT \div 2)) + 1)

NormalizeBy(v, len) ==
    IF len # 0 THEN Vec2(FDiv(v.x, len), FDiv(v.y, len))
               ELSE Vec2(0, 0)
normalize(v) == NormalizeBy(v, length(v))

vadd(a, b) == Vec2(FAdd(a.x, b.x), FAdd(a.y, b.y))
vsub(a, b) == Vec2(FSub(a.x, b.x), FSub(a.y, b.y))
vmul(a, s) == Vec2(FMul(a.x, s), FMul(a.y, s))
vdiv(a, s) == Vec2(FDiv(a.x, s), FDiv(a.y, s))

distance(a, b) == length(vsub(a, b))

(***************************************************************************)
(* physics.rs: bodies                                                      *)
(***************************************************************************)
G == 100

StationaryBody(pos, mass, radius, color) ==
    [pos |-> pos, mass |-> mass, radius |-> radius, color |-> color]

TestParticle(pos, vel, mass, radius) ==
    [pos |-> pos, vel |-> vel, mass |-> mass, radius |-> radius]

\* A force falling off with the distance, not with its square.
ForceMagInverseDistance(g, m1, m2, dist) == FDiv(FMul(FMul(g, m1), m2), dist)

\* g * m1 * m2 / (dist * dist), dividing by dist twice.
ForceMag(g, m1, m2, dist) == FDiv(FDiv(FMul(FMul(g, m1), m2), dist), dist)

\* The force along dir, whose length is dist.
ForceAlong(g, dir, dist, m1, m2) ==
    IF dist = 0 THEN Vec2(0, 0)
    ELSE vmul(NormalizeBy(dir, dist), ForceMag(g, m1, m2, dist))

ForceTowards(g, dir, m1, m2) == ForceAlong(g, dir, length(dir), m1, m2)

calculate_gravitational_force(particle, stationary_body) ==
    ForceTowards(Fx(G), vsub(stationary_body.pos, particle.pos),
                 particle.mass, stationary_body.mass)

RECURSIVE total_force(_, _, _, _)
total_force(particle, bodies, i, acc) ==
    IF i > Len(bodies) THEN acc
    ELSE total_force(particle, bodies, i + 1,
                     vadd(acc, calculate_gravitational_force(particle, bodies[i])))

calculate_acceleration(particle, stationary_bodies) ==
    vdiv(total_force(particle, stationary_bodies, 1, Vec2(0, 0)), particle.mass)

\* particle.vel = particle.vel + acceleration * dt
EulerVelocity(particle, acceleration, dt) ==
    [particle EXCEPT !.vel = vadd(particle.vel, vmul(acceleration, dt))]

\* particle.pos = particle.pos + particle.vel * dt
EulerPosition(particle, dt) ==
    [particle EXCEPT !.pos = vadd(particle.pos, vmul(particle.vel, dt))]

\* Explicit Euler: the position advanced with the velocity before the step.
update_particle_euler_old_velocity(particle, stationary_bodies, dt) ==
    [particle EXCEPT
        !.vel = vadd(particle.vel,
                     vmul(calculate_acceleration(particle, stationary_bodies), dt)),
        !.pos = vadd(particle.pos, vmul(particle.vel, dt))]

update_particle_euler(particle, stationary_bodies, dt) ==
    EulerPosition(
        EulerVelocity(particle, calculate_acceleration(particle, stationary_bodies), dt),
        dt)

HALF == ONE \div 2

\* A stage's pair (k_vel, k_pos), evaluated at the temporary particle.
Rk4K(temp_particle, stationary_bodies, dt) ==
    [vel |-> vmul(calculate_acceleration(temp_particle, stationary_bodies), dt),
     pos |-> vmul(temp_particle.vel, dt)]

\* temp_particle = original_particle, advanced by the fraction f of the stage k.
Rk4Temp(original_particle, k, f) ==
    [original_particle EXCEPT
        !.pos = vadd(original_particle.pos, vmul(k.pos, f)),
        !.vel = vadd(original_particle.vel, vmul(k.vel, f))]

\* The four stages summed with equal weights.
Rk4SumUnweighted(a, b, c, d) == vadd(vadd(vadd(a, b), c), d)

Rk4Sum(a, b, c, d) == vadd(vadd(vadd(a, vmul(b, Fx(2))), vmul(c, Fx(2))), d)

Rk4Final(particle, k1, k2, k3, k4) ==
    [particle EXCEPT
        !.vel = vadd(particle.vel, vdiv(Rk4Sum(k1.vel, k2.vel, k3.vel, k4.vel), Fx(6))),
        !.pos = vadd(particle.pos, vdiv(Rk4Sum(k1.pos, k2.pos, k3.pos, k4.pos), Fx(6)))]

Rk4From3(p, bodies, dt, k1, k2, k3) ==
    Rk4Final(p, k1, k2, k3, Rk4K(Rk4Temp(p, k3, ONE), bodies, dt))

Rk4From2(p, bodies, dt, k1, k2) ==
    Rk4From3(p, bodies, dt, k1, k2, Rk4K(Rk4Temp(p, k2, HALF), bodies, dt))

Rk4From1(p, bodies, dt, k1) ==
    Rk4From2(p, bodies, dt, k1, Rk4K(Rk4Temp(p, k1, HALF), bodies, dt))

update_particle_rk4(particle, stationary_bodies, dt) ==
    Rk4From1(particle, stationary_bodies, dt, Rk4K(particle, stationary_bodies, dt))

\* The last body within the threshold, not the first.
RECURSIVE collision_from_last(_, _, _, _)
collision_from_last(particle, bodies, threshold, i) ==
    IF i < 1 THEN None
    ELSE IF distance(particle.pos, bodies[i].pos) < threshold THEN Some(i - 1)
    ELSE collision_from_last(particle, bodies, threshold, i - 1)

check_collision_last(particle, stationary_bodies, collision_threshold) ==
    collision_from_last(particle, stationary_bodies, collision_threshold,
                        Len(stationary_bodies))

RECURSIVE collision_from(_, _, _, _)
collision_from(particle, bodies, threshold, i) ==
    IF i > Len(bodies) THEN None
    ELSE IF distance(particle.pos, bodies[i].pos) < threshold THEN Some(i - 1)
    ELSE collision_from(particle, bodies, threshold, i + 1)

\* Indices are 0-based as in the source; bodies[i + 1] is the body of index i.
check_collision(particle, stationary_bodies, collision_threshold) ==
    collision_from(particle, stationary_bodies, collision_threshold, 1)

(***************************************************************************)
(* example/lib.rs: the mutually attracting bodies                          *)
(***************************************************************************)
G_lib == 1

GravBody(pos, vel, mass, radius) ==
    [pos |-> pos, vel |-> vel, mass |-> mass, radius |-> radius]

grav_force(self, other) ==
    ForceTowards(Fx(G_lib), vsub(other.pos, self.pos), self.mass, other.mass)

\* for j in 0..bodies.len() { if i != j { total_force = total_force + ... } }
RECURSIVE total_force_on(_, _, _, _)
total_force_on(bodies, i, j, acc) ==
    IF j > Len(bodies) THEN acc
    ELSE total_force_on(bodies, i, j + 1,
                        IF i # j THEN vadd(acc, grav_force(bodies[i], bodies[j]))
                                 ELSE acc)

\* vec![..; n] filled by `for i in 0..n`: the elements Elem(1), ..., Elem(n).
RECURSIVE FilledVec(_, _)
FilledVec(Elem(_), n) ==
    IF n = 0 THEN << >> ELSE Append(FilledVec(Elem, n - 1), Elem(n))

get_accelerations(bodies) ==
    FilledVec(LAMBDA i : vdiv(total_force_on(bodies, i, 1, Vec2(0, 0)), bodies[i].mass),
              Len(bodies))

\* k_vel[i] = accels[i] * dt; k_pos[i] = the stage's bodies[i].vel * dt
StageK(stage_bodies, accels, dt) ==
    FilledVec(LAMBDA i : [vel |-> vmul(accels[i], dt),
                          pos |-> vmul(stage_bodies[i].vel, dt)],
              Len(stage_bodies))

\* temp_bodies[i] = original_bodies[i] advanced by the fraction f of k[i]
StageTemp(original_bodies, k, f) ==
    FilledVec(LAMBDA i : [original_bodies[i] EXCEPT
                            !.pos = vadd(original_bodies[i].pos, vmul(k[i].pos, f)),
                            !.vel = vadd(original_bodies[i].vel, vmul(k[i].vel, f))],
              Len(original_bodies))

\* The accelerations a stage uses: those of the whole temporary array.
StageAccels(temp_bodies) == get_accelerations(temp_bodies)

FinalBody(original, k1, k2, k3, k4) ==
    [original EXCEPT
        !.pos = vadd(original.pos, vdiv(Rk4Sum(k1.pos, k2.pos, k3.pos, k4.pos), Fx(6))),
        !.vel = vadd(original.vel, vdiv(Rk4Sum(k1.vel, k2.vel, k3.vel, k4.vel), Fx(6)))]

FinalBodies(original_bodies, k1, k2, k3, k4) ==
    FilledVec(LAMBDA i : FinalBody(original_bodies[i], k1[i], k2[i], k3[i], k4[i]),
              Len(original_bodies))

BodiesStage(original_bodies, temp_bodies, dt) ==
    StageK(temp_bodies, StageAccels(temp_bodies), dt)

BodiesFrom3(original_bodies, dt, k1, k2, k3) ==
    FinalBodies(original_bodies, k1, k2, k3,
                BodiesStage(original_bodies, StageTemp(original_bodies, k3, ONE), dt))

BodiesFrom2(original_bodies, dt, k1, k2) ==
    BodiesFrom3(original_bodies, dt, k1, k2,
                BodiesStage(original_bodies, StageTemp(original_bodies, k2, HALF), dt))

BodiesFrom1(original_bodies, dt, k1) ==
    BodiesFrom2(original_bodies, dt, k1,
                BodiesStage(original_bodies, StageTemp(original_bodies, k1, HALF), dt))

update_bodies(bodies, dt) ==
    BodiesFrom1(bodies, dt, BodiesStage(bodies, bodies, dt))

(***************************************************************************)
(* simulation.rs: constants                                                *)
(***************************************************************************)
SIMULATION_TIMESTEPS == 7
SUBSTEPS == 3
TEST_PARTICLE_MASS == 1
TEST_PARTICLE_RADIUS == 1
COLLISION_THRESHOLD == 15

\* The frame time of `0.016 / SUBSTEPS as f32`, in the model's time unit.
FRAME_TIME == 3 * ONE

frame_dt == FDiv(FRAME_TIME, Fx(SUBSTEPS))

IntegrationMethods == {"Euler", "RungeKutta4"}

\* match integration_method { Euler => ..., RungeKutta4 => ... }
integrate(integration_method, particle, stationary_bodies, dt) ==
    IF integration_method = "Euler"
        THEN update_particle_euler(particle, stationary_bodies, dt)
        ELSE update_particle_rk4(particle, stationary_bodies, dt)

new_test_particle(start_pos, initial_velocity) ==
    TestParticle(start_pos, initial_velocity,
                 Fx(TEST_PARTICLE_MASS), Fx(TEST_PARTICLE_RADIUS))

(***************************************************************************)
(* Inputs of a run                                                         *)
(***************************************************************************)
\* config.rs: the colours of the wells and of a run without collision.
Red == << 255, 100, 100 >>
Green == << 100, 255, 100 >>
Blue == << 100, 100, 255 >>
DEFAULT_NON_COLLISION_COLOR == << 20, 20, 20 >>

Well(x, y, mass, color) ==
    StationaryBody(Vec2(Fx(x), Fx(y)), Fx(mass), Fx(10), color)

WellLists ==
    { << >>,
      << Well(0, 0, 8, Red), Well(20, 0, 4, Green) >>,
      << Well(0, 0, 0, Red), Well(40, 0, 0, Green), Well(0, 40, 0, Blue) >>,
      << Well(-30, 0, 8, Red), Well(30, 0, 8, Green), Well(0, 40, 6, Blue) >> }

StartPositions ==
    { Vec2(Fx(0), Fx(0)), Vec2(Fx(12), Fx(0)), Vec2(Fx(52), Fx(0)),
      Vec2(Fx(0), Fx(22)), Vec2(Fx(60), Fx(60)) }

Velocities ==
    { Vec2(Fx(0), Fx(0)), Vec2(Fx(-2), Fx(0)), Vec2(Fx(-20), Fx(0)),
      Vec2(Fx(1), Fx(-1)) }

\* The three bodies of a cell of the stability image, at the model's scale.
ThreeBodies(vy1, vy2) ==
    << GravBody(Vec2(Fx(5), 0), Vec2(0, vy1), Fx(6), Fx(1)),
       GravBody(Vec2(Fx(-5), 0), Vec2(0, vy2), Fx(6), Fx(1)),
       GravBody(Vec2(0, 0), Vec2(0, 0), Fx(6), Fx(1)) >>

Vy1Values == { 0, HALF, ONE, ONE + HALF }
Vy2Values == { 0, -HALF, -ONE, -(ONE + HALF) }

\* program: which of the two binaries runs, "wells" (src/src) or
\* "three_body" (src/example).  The inputs of the other one stay at rest.
VARIABLES program,
          start_pos, initial_velocity, stationary_bodies, integration_method,
          initial_bodies, camera_offset, zoom_factor, host,
          batch, live, batch3, live3,
          phys, ub,
          pixels, frames, jobs, pending, progress, image, audit

\* host: the other locals of the loop of main (main.rs), where it is in its
\* frame, and what the window system and the file system hand to it.
inputVars == << program, start_pos, initial_velocity, stationary_bodies,
                integration_method, initial_bodies, camera_offset, zoom_factor,
                host >>
runVars == << batch, live, batch3, live3 >>
\* phys: one call of a function of physics.rs or lib.rs, its arguments and
\* its result.
\* ub: one call of update_bodies, statement by statement.
callVars == << phys, ub >>
\* The sweep over the cells of the image: pixels is the vector of pixels,
\* pending the cells no worker has taken yet, jobs[w] the cell worker w is
\* at, frames[w] the locals of its run, progress the counter and the bar,
\* image the ImageBuffer; audit records which tasks wrote each pixel and
\* with what outcome.
sweepVars == << pixels, frames, jobs, pending, progress, image, audit >>
vars == << inputVars, runVars, callVars, sweepVars >>

Idle == [pc |-> "idle"]

WellsInputInit ==
    /\ program = "wells"
    /\ host = Idle
    /\ start_pos \in StartPositions
    /\ initial_velocity \in Velocities
    /\ stationary_bodies \in WellLists
    /\ integration_method \in IntegrationMethods
    /\ initial_bodies = << >>
    /\ camera_offset = Vec2(0, 0)
    /\ zoom_factor = ONE

ThreeBodyInputInit ==
    /\ program = "three_body"
    /\ host = Idle
    /\ start_pos = Vec2(0, 0)
    /\ initial_velocity = Vec2(0, 0)
    /\ stationary_bodies = << >>
    /\ integration_method = "RungeKutta4"
    /\ \E vy1 \in Vy1Values, vy2 \in Vy2Values : initial_bodies = ThreeBodies(vy1, vy2)
    /\ camera_offset = Vec2(0, 0)
    /\ zoom_factor = ONE

(***************************************************************************)
(* simulation.rs: run_simulation_with_time, one inner-loop iteration per   *)
(* step.  `integrations` counts the integrator calls made so far.          *)
(***************************************************************************)
batch_new(pos, vel) ==
    [ particle     |-> new_test_particle(pos, vel),
      timestep     |-> 0,
      substep      |-> 0,
      integrations |-> 0,
      pc           |-> IF SIMULATION_TIMESTEPS > 0 /\ SUBSTEPS > 0
                          THEN "running" ELSE "returned",
      result       |-> None ]

\* Reporting the count of substeps made before the colliding one.
collision_time_substeps(b) == b.timestep * SUBSTEPS + b.substep

\* Reporting the outer timesteps still to come, the colliding one included.
collision_time_remaining(b) == SIMULATION_TIMESTEPS - b.timestep

\* The timestep reported on a collision: the loop variable of the outer loop.
collision_time(b) == b.timestep

\* Loops written `for _ in 0..=SIMULATION_TIMESTEPS`: one outer pass too many.
BatchAfterInclusive(b, particle, collision) ==
    IF IsSome(collision)
    THEN [b EXCEPT !.particle = particle,
                   !.integrations = @ + 1,
                   !.result = Some(<< Unwrap(collision), b.timestep >>),
                   !.pc = "returned"]
    ELSE [b EXCEPT !.particle = particle,
                   !.integrations = @ + 1,
                   !.substep = IF b.substep + 1 >= SUBSTEPS THEN 0 ELSE @ + 1,
                   !.timestep = IF b.substep + 1 >= SUBSTEPS THEN @ + 1 ELSE @,
                   !.pc = IF b.substep + 1 >= SUBSTEPS
                             /\ b.timestep + 1 > SIMULATION_TIMESTEPS
                          THEN "returned" ELSE "running"]

\* The rest of an inner-loop iteration, after the integrator and the test.
BatchAfter(b, particle, collision) ==
    IF IsSome(collision)
    THEN [b EXCEPT !.particle = particle,
                   !.integrations = @ + 1,
                   !.result = Some(<< Unwrap(collision), collision_time(b) >>),
                   !.pc = "returned"]
    ELSE [b EXCEPT !.particle = particle,
                   !.integrations = @ + 1,
                   !.substep = IF b.substep + 1 >= SUBSTEPS THEN 0 ELSE @ + 1,
                   !.timestep = IF b.substep + 1 >= SUBSTEPS THEN @ + 1 ELSE @,
                   !.pc = IF b.substep + 1 >= SUBSTEPS
                             /\ b.timestep + 1 >= SIMULATION_TIMESTEPS
                          THEN "returned" ELSE "running"]

BatchTest(b, particle, bodies) ==
    BatchAfter(b, particle, check_collision(particle, bodies, Fx(COLLISION_THRESHOLD)))

batch_iteration(b, bodies, method) ==
    BatchTest(b, integrate(method, b.particle, bodies, frame_dt), bodies)

\* The whole call: the iterations of the two nested loops, up to the return.
RECURSIVE BatchLoop(_, _, _)
BatchLoop(b, bodies, method) ==
    IF b.pc = "returned" THEN b
    ELSE BatchLoop(batch_iteration(b, bodies, method), bodies, method)

run_simulation_with_time(pos, vel, bodies, method) ==
    BatchLoop(batch_new(pos, vel), bodies, method).result

(***************************************************************************)
(* simulation.rs: run_simulation, the run that returns the body index      *)
(* alone.  timestep and substep are the positions of its two loops.        *)
(***************************************************************************)
RECURSIVE SimRunLoop(_, _, _, _, _)
\* if let Some(collision_index) = check_collision(..) { return Some(collision_index); }
SimRunTested(particle, collision, bodies, method, timestep, substep) ==
    IF IsSome(collision) THEN collision
    ELSE IF substep + 1 >= SUBSTEPS
         THEN SimRunLoop(particle, bodies, method, timestep + 1, 0)
         ELSE SimRunLoop(particle, bodies, method, timestep, substep + 1)

\* A run that tests for a collision at the end of an outer timestep only.
SimRunTestAtFrameEnd(particle, bodies, method, timestep, substep) ==
    SimRunTested(particle,
                 IF substep + 1 >= SUBSTEPS
                 THEN check_collision(particle, bodies, Fx(COLLISION_THRESHOLD))
                 ELSE None,
                 bodies, method, timestep, substep)

SimRunTest(particle, bodies, method, timestep, substep) ==
    SimRunTested(particle, check_collision(particle, bodies, Fx(COLLISION_THRESHOLD)),
                 bodies, method, timestep, substep)

SimRunLoop(particle, bodies, method, timestep, substep) ==
    IF timestep >= SIMULATION_TIMESTEPS \/ SUBSTEPS <= 0 THEN None
    ELSE SimRunTest(integrate(method, particle, bodies, frame_dt),
                    bodies, method, timestep, substep)

\* simulation.rs run_simulation(start_pos, initial_velocity, stationary_bodies,
\* integration_method) -> Option<usize>
sim_run_simulation(pos, vel, bodies, method) ==
    SimRunLoop(new_test_particle(pos, vel), bodies, method, 0, 0)

(***************************************************************************)
(* simulation.rs: LiveSimulationState                                      *)
(***************************************************************************)
live_new(pos, vel, bodies, method) ==
    [ particle             |-> new_test_particle(pos, vel),
      stationary_bodies    |-> bodies,
      trajectory_history   |-> << pos >>,
      current_timestep     |-> 0,
      collision_body_index |-> None,
      integration_method   |-> method,
      integrations         |-> 0,
      calls                |-> 0 ]

\* for _ in 0..SUBSTEPS { integrate; if let Some(..) = check_collision { ..; break } }
RECURSIVE live_substeps(_, _, _, _, _)
\* A replay that honours a collision only at the end of a frame.
LiveTestedAtFrameEnd(p, c, bodies, method, k, done) ==
    IF IsSome(c) /\ k + 1 >= SUBSTEPS
    THEN [particle |-> p, collision |-> c, integrations |-> done + 1]
    ELSE live_substeps(p, bodies, method, k + 1, done + 1)

LiveTested(p, c, bodies, method, k, done) ==
    IF IsSome(c)
    THEN [particle |-> p, collision |-> c, integrations |-> done + 1]
    ELSE live_substeps(p, bodies, method, k + 1, done + 1)

LiveTest(p, bodies, method, k, done) ==
    LiveTested(p, check_collision(p, bodies, Fx(COLLISION_THRESHOLD)),
               bodies, method, k, done)

live_substeps(particle, bodies, method, k, done) ==
    IF k >= SUBSTEPS
    THEN [particle |-> particle, collision |-> None, integrations |-> done]
    ELSE LiveTest(integrate(method, particle, bodies, frame_dt), bodies, method, k, done)

is_finished(s) ==
    IsSome(s.collision_body_index) \/ s.current_timestep >= SIMULATION_TIMESTEPS

\* A step() that takes the well collided with out of its list.
StepEndAbsorbingWell(s, r) ==
    [s EXCEPT
        !.particle = r.particle,
        !.collision_body_index = r.collision,
        !.stationary_bodies =
            IF IsSome(r.collision)
            THEN SubSeq(@, 1, Unwrap(r.collision)) \o SubSeq(@, Unwrap(r.collision) + 2, Len(@))
            ELSE @,
        !.trajectory_history =
            IF s.current_timestep % 5 = 0 THEN Append(@, r.particle.pos) ELSE @,
        !.current_timestep = @ + 1,
        !.integrations = @ + r.integrations]

\* A step() that samples after counting the timestep, as the loop of the
\* three bodies does.
StepEndSampleAfterCount(s, r) ==
    [s EXCEPT
        !.particle = r.particle,
        !.collision_body_index = r.collision,
        !.trajectory_history =
            IF (s.current_timestep + 1) % 5 = 0 THEN Append(@, r.particle.pos) ELSE @,
        !.current_timestep = @ + 1,
        !.integrations = @ + r.integrations]

\* The end of step(): the trajectory sample and the timestep counter.
StepEnd(s, r) ==
    [s EXCEPT
        !.particle = r.particle,
        !.collision_body_index = r.collision,
        !.trajectory_history =
            IF s.current_timestep % 5 = 0 THEN Append(@, r.particle.pos) ELSE @,
        !.current_timestep = @ + 1,
        !.integrations = @ + r.integrations]

\* A step() without its guard.
step_unguarded(s) ==
    StepEnd(s, live_substeps(s.particle, s.stationary_bodies,
                             s.integration_method, 0, 0))

step(s) ==
    IF s.current_timestep < SIMULATION_TIMESTEPS /\ s.collision_body_index = None
    THEN StepEnd(s, live_substeps(s.particle, s.stationary_bodies,
                                  s.integration_method, 0, 0))
    ELSE s

(***************************************************************************)
(* example/main.rs: run_simulation and the live loop of the three bodies   *)
(***************************************************************************)
\* A test that takes twice the radius of the first body of a pair for the
\* sum of the radii of the two.
pairs_collide_first_radius(bodies) ==
    \/ distance(bodies[1].pos, bodies[2].pos) < bodies[1].radius + bodies[1].radius
    \/ distance(bodies[1].pos, bodies[3].pos) < bodies[1].radius + bodies[1].radius
    \/ distance(bodies[2].pos, bodies[3].pos) < bodies[2].radius + bodies[2].radius

\* The collision test of run_simulation: some pair nearer than its radii.
batch_pairs_collide(bodies) ==
    \/ distance(bodies[1].pos, bodies[2].pos) < bodies[1].radius + bodies[2].radius
    \/ distance(bodies[1].pos, bodies[3].pos) < bodies[1].radius + bodies[3].radius
    \/ distance(bodies[2].pos, bodies[3].pos) < bodies[2].radius + bodies[3].radius

\* The same test, as the live loop spells it.
live_pairs_collide(bodies) ==
    \/ distance(bodies[1].pos, bodies[2].pos) < bodies[1].radius + bodies[2].radius
    \/ distance(bodies[1].pos, bodies[3].pos) < bodies[1].radius + bodies[3].radius
    \/ distance(bodies[2].pos, bodies[3].pos) < bodies[2].radius + bodies[3].radius

batch3_new(bodies) ==
    [ bodies       |-> bodies,
      i            |-> 0,
      substep      |-> 0,
      integrations |-> 0,
      pc           |-> IF SIMULATION_TIMESTEPS > 0 /\ SUBSTEPS > 0
                          THEN "running" ELSE "returned",
      result       |-> SIMULATION_TIMESTEPS ]

\* return i as f32
time_to_collision(b) == b.i

Batch3After(b, bodies) ==
    IF batch_pairs_collide(bodies)
    THEN [b EXCEPT !.bodies = bodies,
                   !.integrations = @ + 1,
                   !.result = time_to_collision(b),
                   !.pc = "returned"]
    ELSE [b EXCEPT !.bodies = bodies,
                   !.integrations = @ + 1,
                   !.substep = IF b.substep + 1 >= SUBSTEPS THEN 0 ELSE @ + 1,
                   !.i = IF b.substep + 1 >= SUBSTEPS THEN @ + 1 ELSE @,
                   !.pc = IF b.substep + 1 >= SUBSTEPS /\ b.i + 1 >= SIMULATION_TIMESTEPS
                          THEN "returned" ELSE "running"]

\* One iteration of the inner loop of run_simulation(bodies).
batch3_iteration(b) == Batch3After(b, update_bodies(b.bodies, frame_dt))

POSITION_SAMPLE_RATE == 1

live3_new(bodies) ==
    [ bodies             |-> bodies,
      trajectory_history |-> << << bodies[1].pos >>, << bodies[2].pos >>,
                                << bodies[3].pos >> >>,
      current_timestep   |-> 0,
      integrations       |-> 0,
      collided           |-> FALSE,
      frames             |-> 0 ]

\* for _ in 0..SUBSTEPS { update_bodies; if <pairs collide> { collision = true; break } }
RECURSIVE live3_substeps(_, _, _)
Live3Tested(bodies, k, done) ==
    IF live_pairs_collide(bodies)
    THEN [bodies |-> bodies, collision |-> TRUE, integrations |-> done + 1]
    ELSE live3_substeps(bodies, k + 1, done + 1)

live3_substeps(bodies, k, done) ==
    IF k >= SUBSTEPS
    THEN [bodies |-> bodies, collision |-> FALSE, integrations |-> done]
    ELSE Live3Tested(update_bodies(bodies, frame_dt), k, done)

Live3Sample(hist, bodies) ==
    FilledVec(LAMBDA i : Append(hist[i], bodies[i].pos), 3)

Live3End(s, r) ==
    IF r.collision
    THEN [s EXCEPT !.bodies = r.bodies,
                   !.integrations = @ + r.integrations,
                   !.collided = TRUE,
                   !.current_timestep = SIMULATION_TIMESTEPS]
    ELSE [s EXCEPT !.bodies = r.bodies,
                   !.integrations = @ + r.integrations,
                   !.current_timestep = @ + 1,
                   !.trajectory_history =
                       IF (s.current_timestep + 1) % POSITION_SAMPLE_RATE = 0
                       THEN Live3Sample(@, r.bodies) ELSE @]

\* The update of the live simulation in one frame of the three-body loop.
live3_frame(s) ==
    IF s.current_timestep < SIMULATION_TIMESTEPS
    THEN Live3End(s, live3_substeps(s.bodies, 0, 0))
    ELSE s

(***************************************************************************)
(* One initial condition, run to its outcome and replayed live             *)
(***************************************************************************)
ExtraCalls == 2

RunIdle == batch = Idle /\ live = Idle /\ batch3 = Idle /\ live3 = Idle
InputIdle ==
    /\ host = Idle
    /\ start_pos = Vec2(0, 0)
    /\ initial_velocity = Vec2(0, 0)
    /\ stationary_bodies = << >>
    /\ integration_method = "RungeKutta4"
    /\ initial_bodies = << >>
    /\ camera_offset = Vec2(0, 0)
    /\ zoom_factor = ONE

CallIdle == phys = Idle /\ ub = Idle
SweepIdle ==
    /\ pixels = << >>
    /\ frames = << >>
    /\ jobs = << >>
    /\ pending = { }
    /\ progress = Idle
    /\ image = None
    /\ audit = Idle

WellsRunInit ==
    /\ WellsInputInit
    /\ batch = batch_new(start_pos, initial_velocity)
    /\ live = live_new(start_pos, initial_velocity, stationary_bodies, integration_method)
    /\ batch3 = Idle
    /\ live3 = Idle
    /\ CallIdle
    /\ SweepIdle

ThreeBodyRunInit ==
    /\ ThreeBodyInputInit
    /\ batch = Idle
    /\ live = Idle
    /\ batch3 = batch3_new(initial_bodies)
    /\ live3 = live3_new(initial_bodies)
    /\ CallIdle
    /\ SweepIdle

RunInit == WellsRunInit \/ ThreeBodyRunInit

BatchSubstep ==
    /\ program = "wells"
    /\ batch.pc = "running"
    /\ batch' = batch_iteration(batch, stationary_bodies, integration_method)
    /\ UNCHANGED << inputVars, live, batch3, live3, callVars, sweepVars >>

\* The host loop calls step() once per frame, finished or not.  A replay is
\* started by a click on the image, that is, after the batch runs are over.
LiveStep ==
    /\ program = "wells"
    /\ batch.pc = "returned"
    /\ live.calls < SIMULATION_TIMESTEPS + ExtraCalls
    /\ live' = [step(live) EXCEPT !.calls = @ + 1]
    /\ UNCHANGED << inputVars, batch, batch3, live3, callVars, sweepVars >>

Batch3Substep ==
    /\ program = "three_body"
    /\ batch3.pc = "running"
    /\ batch3' = batch3_iteration(batch3)
    /\ UNCHANGED << inputVars, batch, live, live3, callVars, sweepVars >>

Live3Frame ==
    /\ program = "three_body"
    /\ batch3.pc = "returned"
    /\ live3.frames < SIMULATION_TIMESTEPS + ExtraCalls
    /\ live3' = [live3_frame(live3) EXCEPT !.frames = @ + 1]
    /\ UNCHANGED << inputVars, batch, live, batch3, callVars, sweepVars >>

RunNext == BatchSubstep \/ LiveStep \/ Batch3Substep \/ Live3Frame

SpecRun == RunInit /\ [][RunNext]_vars

(***************************************************************************)
(* Reference quantities of a run, computed from its inputs alone           *)
(***************************************************************************)
Collides(p, bodies) == IsSome(check_collision(p, bodies, Fx(COLLISION_THRESHOLD)))

\* Integrator calls are applied one after the other, up to `limit` of them,
\* and the first one whose result collides is the last: n is the number of
\* calls made, particle their result, hit whether that result collides.
RECURSIVE IntegrateUntilHit(_, _, _, _, _)
IntegrateTested(q, bodies, method, k, limit) ==
    IF Collides(q, bodies) THEN [n |-> k, particle |-> q, hit |-> TRUE]
    ELSE IntegrateUntilHit(q, bodies, method, k, limit)

IntegrateUntilHit(p, bodies, method, k, limit) ==
    IF k >= limit THEN [n |-> k, particle |-> p, hit |-> FALSE]
    ELSE IntegrateTested(integrate(method, p, bodies, frame_dt),
                         bodies, method, k + 1, limit)

Budget == SIMULATION_TIMESTEPS * SUBSTEPS
StartParticle == new_test_particle(start_pos, initial_velocity)
Reference ==
    IntegrateUntilHit(StartParticle, stationary_bodies, integration_method, 0, Budget)

\* The same for the three bodies: update_bodies calls up to the first one
\* after which run_simulation's pair test holds.
RECURSIVE UpdateUntilHit(_, _, _)
UpdateTested(bodies, k, limit) ==
    IF batch_pairs_collide(bodies) THEN [n |-> k, bodies |-> bodies, hit |-> TRUE]
    ELSE UpdateUntilHit(bodies, k, limit)

UpdateUntilHit(bodies, k, limit) ==
    IF k >= limit THEN [n |-> k, bodies |-> bodies, hit |-> FALSE]
    ELSE UpdateTested(update_bodies(bodies, frame_dt), k + 1, limit)

Reference3 == UpdateUntilHit(initial_bodies, 0, Budget)

BatchReturned == program = "wells" /\ batch.pc = "returned"
BatchCollided == BatchReturned /\ IsSome(batch.result)
BatchBody == Unwrap(batch.result)[1]
BatchTime == Unwrap(batch.result)[2]

Batch3Returned == program = "three_body" /\ batch3.pc = "returned"
Batch3Collided == Batch3Returned /\ batch3.result < SIMULATION_TIMESTEPS

C1_Against(ref) ==
    /\ batch.integrations = ref.n
    /\ batch.particle = ref.particle
    /\ IsSome(batch.result) = ref.hit
    /\ IsSome(batch.result) =>
         /\ Collides(batch.particle, stationary_bodies)
         /\ BatchTime = (batch.integrations - 1) \div SUBSTEPS
         /\ BatchTime \in 0 .. SIMULATION_TIMESTEPS - 1

C1_Against3(ref) ==
    /\ batch3.integrations = ref.n
    /\ batch3.bodies = ref.bodies
    /\ (batch3.result # SIMULATION_TIMESTEPS) = ref.hit
    /\ ref.hit => batch3.result = (batch3.integrations - 1) \div SUBSTEPS

\* C1: a batch run (of the particle among the wells, of the three bodies)
\* integrates once and then tests, substep by substep; it returns at the
\* first substep whose post-integration state collides, having made exactly
\* that many integrator calls and none after, and the time it reports is the
\* 0-based index of the outer timestep holding that substep; without such a
\* substep it uses the whole budget.
C1_StopsAtFirstCollision ==
    /\ BatchReturned => C1_Against(Reference)
    /\ Batch3Returned => C1_Against3(Reference3)

\* A collision found in the middle of an outer timestep that is not the first.
C1_Witness ==
    /\ BatchCollided
    /\ BatchTime >= 1
    /\ batch.integrations % SUBSTEPS # 0
    /\ batch.integrations # BatchTime
    /\ live.calls > 0

(***************************************************************************)
(* Live replay against the batch run                                       *)
(***************************************************************************)
LiveFinished == program = "wells" /\ is_finished(live)
Live3Finished == program = "three_body" /\ live3.current_timestep >= SIMULATION_TIMESTEPS

\* The replay so far is a prefix of the substeps of the batch run.
C3_Prefix(ref) ==
    /\ ref.n = live.integrations
    /\ ref.particle = live.particle
    /\ ref.hit = IsSome(live.collision_body_index)

C3_Prefix3(ref) ==
    /\ ref.n = live3.integrations
    /\ ref.bodies = live3.bodies
    /\ ref.hit = live3.collided

\* C3: live replay makes the integrator calls and collision tests of the
\* batch run, in the same order: at any moment its state is the one the
\* batch run had after as many calls, and when it has finished it has made
\* as many calls as the batch run, has stopped on the same state and holds
\* the body index the batch run returned (None for None).  The three-body
\* live loop likewise stops after the update_bodies call after which
\* run_simulation returned.
C3_LiveReproducesBatch ==
    /\ program = "wells" =>
         /\ C3_Prefix(IntegrateUntilHit(StartParticle, stationary_bodies,
                                        integration_method, 0, live.integrations))
         /\ live.integrations <= batch.integrations
         /\ LiveFinished /\ BatchReturned =>
              /\ live.integrations = batch.integrations
              /\ live.particle = batch.particle
              /\ live.collision_body_index =
                   IF IsSome(batch.result) THEN Some(BatchBody) ELSE None
    /\ program = "three_body" =>
         /\ C3_Prefix3(UpdateUntilHit(initial_bodies, 0, live3.integrations))
         /\ live3.integrations <= batch3.integrations
         /\ Live3Finished /\ Batch3Returned =>
              /\ live3.integrations = batch3.integrations
              /\ live3.bodies = batch3.bodies
              /\ live3.collided = (batch3.result # SIMULATION_TIMESTEPS)

\* The replay has ended on a collision found in the middle of a frame that is
\* not the first one.
C3_Witness ==
    /\ LiveFinished
    /\ IsSome(live.collision_body_index)
    /\ live.current_timestep >= 2
    /\ live.integrations % SUBSTEPS # 0

\* C4 (as claimed): when live replay has ended on a collision, the timestep it
\* shows, current_timestep, is the timestep run_simulation_with_time returns.
C4_LiveTimestepIsBatchTime ==
    (LiveFinished /\ IsSome(live.collision_body_index) /\ BatchCollided)
        => live.current_timestep = BatchTime

(***************************************************************************)
(* Single calls of the functions of physics.rs and lib.rs                  *)
(***************************************************************************)
PhysPositions ==
    { Vec2(0, 0), Vec2(Fx(12), 0), Vec2(Fx(15), 0), Vec2(Fx(3), Fx(4)),
      Vec2(Fx(60), Fx(60)) }

ParticleMasses == { 0, Fx(1), Fx(2) }

PhysParticles ==
    { TestParticle(pos, vel, mass, Fx(TEST_PARTICLE_RADIUS)) :
        pos \in PhysPositions, vel \in Velocities, mass \in ParticleMasses }

Thresholds == { 0, Fx(COLLISION_THRESHOLD), Fx(25) }

TimeSteps == { frame_dt, HALF }

PhysWells == { Well(x, 0, mass, Red) : x \in { 0, 20, -30 }, mass \in { 0, 4, 8 } }
                \cup { Well(0, 40, 6, Blue) }

BodyPositions == { Vec2(0, 0), Vec2(Fx(5), 0), Vec2(Fx(-3), Fx(4)) }
BodyVelocities == { Vec2(0, 0), Vec2(ONE, -HALF) }
BodyMasses == { 0, Fx(6) }

PhysBodies ==
    { GravBody(pos, vel, mass, Fx(1)) :
        pos \in BodyPositions, vel \in BodyVelocities, mass \in BodyMasses }

\* The arrays given to update_bodies: the three bodies of the image, one
\* body alone, and three bodies of one and the same mass (zero, light, or
\* heavy enough for a body's acceleration to change with a sibling's
\* advance within one step).
BodyLists ==
    { ThreeBodies(vy1, vy2) : vy1 \in { 0, ONE }, vy2 \in { 0, -ONE } }
      \cup { << b >> : b \in PhysBodies }
      \cup { << GravBody(Vec2(Fx(5), 0), v, mass, Fx(1)),
                GravBody(Vec2(Fx(-5), 0), Vec2(0, 0), mass, Fx(1)),
                GravBody(Vec2(0, Fx(4)), Vec2(0, 0), mass, Fx(1)) >> :
             v \in BodyVelocities, mass \in BodyMasses \cup { Fx(200) } }

CheckCollisionCalls ==
    { [op |-> "check_collision", pc |-> "called", particle |-> p,
       bodies |-> bodies, threshold |-> t, result |-> None] :
        p \in { q \in PhysParticles : q.vel = Vec2(0, 0) /\ q.mass = ONE },
        bodies \in WellLists, t \in Thresholds }

EulerCalls ==
    { [op |-> "update_particle_euler", pc |-> "acceleration", original |-> p,
       particle |-> p, bodies |-> bodies, dt |-> dt,
       acceleration |-> None, accel_evals |-> 0, eval_pos |-> None] :
        p \in PhysParticles, bodies \in WellLists, dt \in TimeSteps }

Rk4Calls ==
    { [op |-> "update_particle_rk4", pc |-> "called", original |-> p,
       particle |-> p, bodies |-> bodies, dt |-> dt] :
        p \in PhysParticles, bodies \in WellLists, dt \in TimeSteps }

UpdateBodiesCalls ==
    { [op |-> "update_bodies", pc |-> "called", original |-> bodies,
       bodies |-> bodies, dt |-> dt] :
        bodies \in BodyLists, dt \in TimeSteps }

ForceCalls ==
    { [op |-> "calculate_gravitational_force", pc |-> "called", particle |-> p,
       body |-> body, result |-> None] :
        p \in { q \in PhysParticles : q.vel = Vec2(0, 0) }, body \in PhysWells }

GravForceCalls ==
    { [op |-> "grav_force", pc |-> "called", self |-> a, other |-> b,
       result |-> None] :
        a \in { q \in PhysBodies : q.vel = Vec2(0, 0) }, b \in PhysBodies }

\* Three bodies with centres 5, 12 and 13 apart, of radii of their own.
PairRadii == { 0, Fx(1), Fx(4), Fx(9) }

PairBodyLists ==
    { << GravBody(Vec2(0, 0), Vec2(0, 0), Fx(6), r1),
         GravBody(Vec2(Fx(5), 0), Vec2(0, 0), Fx(6), r2),
         GravBody(Vec2(0, Fx(12)), Vec2(0, 0), Fx(6), r3) >> :
        r1 \in PairRadii, r2 \in PairRadii, r3 \in PairRadii }

\* The pair test as run_simulation and as the live loop spell it.
PairsCollideCalls ==
    { [op |-> "pairs_collide", pc |-> "called", bodies |-> bodies,
       batch |-> None, live |-> None] : bodies \in PairBodyLists }

\* Wells and particles of radii below and above COLLISION_THRESHOLD.
RadiusWells ==
    { << StationaryBody(Vec2(0, 0), Fx(8), r1, Red),
         StationaryBody(Vec2(Fx(40), 0), Fx(4), r2, Green) >> :
        r1 \in { Fx(1), Fx(10), Fx(20) }, r2 \in { Fx(1), Fx(10), Fx(20) } }

RadiusParticles ==
    { TestParticle(Vec2(Fx(x), 0), Vec2(0, 0), Fx(TEST_PARTICLE_MASS), r) :
        x \in { 14, 15, 18, 24, 26 }, r \in { 0, Fx(TEST_PARTICLE_RADIUS), Fx(8) } }

\* check_collision(&particle, stationary_bodies, COLLISION_THRESHOLD), the
\* test of the runs and of step().
RunCollisionTestCalls ==
    { [op |-> "run_collision_test", pc |-> "called", particle |-> p,
       bodies |-> bodies, result |-> None] :
        p \in RadiusParticles, bodies \in RadiusWells }

\* The two runs of simulation.rs, called with the same arguments.
RunSimulationCalls ==
    { [op |-> "run_simulation", pc |-> "called", start_pos |-> pos,
       initial_velocity |-> vel, bodies |-> bodies, method |-> method,
       index |-> None, with_time |-> None] :
        pos \in StartPositions, vel \in Velocities, bodies \in WellLists,
        method \in IntegrationMethods }

PhysInit ==
    /\ program = "physics"
    /\ InputIdle
    /\ RunIdle
    /\ SweepIdle
    /\ ub = Idle
    /\ phys \in CheckCollisionCalls \cup EulerCalls \cup Rk4Calls
                  \cup UpdateBodiesCalls \cup ForceCalls \cup GravForceCalls
                  \cup PairsCollideCalls \cup RunCollisionTestCalls
                  \cup RunSimulationCalls

CallCheckCollision ==
    /\ phys.op = "check_collision" /\ phys.pc = "called"
    /\ phys' = [phys EXCEPT
                  !.result = check_collision(phys.particle, phys.bodies, phys.threshold),
                  !.pc = "returned"]
    /\ UNCHANGED << inputVars, runVars, ub, sweepVars >>

\* let acceleration = calculate_acceleration(particle, stationary_bodies);
EulerAcceleration ==
    /\ phys.op = "update_particle_euler" /\ phys.pc = "acceleration"
    /\ phys' = [phys EXCEPT
                  !.acceleration = Some(calculate_acceleration(phys.particle, phys.bodies)),
                  !.accel_evals = @ + 1,
                  !.eval_pos = Some(phys.particle.pos),
                  !.pc = "velocity"]
    /\ UNCHANGED << inputVars, runVars, ub, sweepVars >>

\* particle.vel = particle.vel + acceleration * dt;
EulerSetVelocity ==
    /\ phys.op = "update_particle_euler" /\ phys.pc = "velocity"
    /\ phys' = [phys EXCEPT
                  !.particle = EulerVelocity(phys.particle, Unwrap(phys.acceleration), phys.dt),
                  !.pc = "position"]
    /\ UNCHANGED << inputVars, runVars, ub, sweepVars >>

\* particle.pos = particle.pos + particle.vel * dt;
EulerSetPosition ==
    /\ phys.op = "update_particle_euler" /\ phys.pc = "position"
    /\ phys' = [phys EXCEPT
                  !.particle = EulerPosition(phys.particle, phys.dt),
                  !.pc = "returned"]
    /\ UNCHANGED << inputVars, runVars, ub, sweepVars >>

CallRk4 ==
    /\ phys.op = "update_particle_rk4" /\ phys.pc = "called"
    /\ phys' = [phys EXCEPT
                  !.particle = update_particle_rk4(phys.particle, phys.bodies, phys.dt),
                  !.pc = "returned"]
    /\ UNCHANGED << inputVars, runVars, ub, sweepVars >>

CallUpdateBodies ==
    /\ phys.op = "update_bodies" /\ phys.pc = "called"
    /\ phys' = [phys EXCEPT
                  !.bodies = update_bodies(phys.bodies, phys.dt),
                  !.pc = "returned"]
    /\ UNCHANGED << inputVars, runVars, ub, sweepVars >>

CallForce ==
    /\ phys.op = "calculate_gravitational_force" /\ phys.pc = "called"
    /\ phys' = [phys EXCEPT
                  !.result = Some(calculate_gravitational_force(phys.particle, phys.body)),
                  !.pc = "returned"]
    /\ UNCHANGED << inputVars, runVars, ub, sweepVars >>

CallGravForce ==
    /\ phys.op = "grav_force" /\ phys.pc = "called"
    /\ phys' = [phys EXCEPT
                  !.result = Some(grav_force(phys.self, phys.other)),
                  !.pc = "returned"]
    /\ UNCHANGED << inputVars, runVars, ub, sweepVars >>

CallPairsCollide ==
    /\ phys.op = "pairs_collide" /\ phys.pc = "called"
    /\ phys' = [phys EXCEPT
                  !.batch = Some(batch_pairs_collide(phys.bodies)),
                  !.live = Some(live_pairs_collide(phys.bodies)),
                  !.pc = "returned"]
    /\ UNCHANGED << inputVars, runVars, ub, sweepVars >>

CallRunCollisionTest ==
    /\ phys.op = "run_collision_test" /\ phys.pc = "called"
    /\ phys' = [phys EXCEPT
                  !.result = check_collision(phys.particle, phys.bodies,
                                             Fx(COLLISION_THRESHOLD)),
                  !.pc = "returned"]
    /\ UNCHANGED << inputVars, runVars, ub, sweepVars >>

CallRunSimulation ==
    /\ phys.op = "run_simulation" /\ phys.pc = "called"
    /\ phys' = [phys EXCEPT
                  !.index = Some(sim_run_simulation(phys.start_pos, phys.initial_velocity,
                                                    phys.bodies, phys.method)),
                  !.with_time = Some(run_simulation_with_time(phys.start_pos,
                                                              phys.initial_velocity,
                                                              phys.bodies, phys.method)),
                  !.pc = "returned"]
    /\ UNCHANGED << inputVars, runVars, ub, sweepVars >>

PhysNext ==
    \/ CallCheckCollision
    \/ EulerAcceleration \/ EulerSetVelocity \/ EulerSetPosition
    \/ CallRk4
    \/ CallUpdateBodies
    \/ CallForce
    \/ CallGravForce
    \/ CallPairsCollide
    \/ CallRunCollisionTest
    \/ CallRunSimulation

SpecPhysics == PhysInit /\ [][PhysNext]_vars

Returned(op) == phys.pc = "returned" /\ phys.op = op

(***************************************************************************)
(* check_collision                                                         *)
(***************************************************************************)
\* The centres of particle and body are strictly nearer than t (t >= 0):
\* the squared distance, free of any square root, is below t squared.
Near(particle, body, t) ==
    Sq(body.pos.x - particle.pos.x) + Sq(body.pos.y - particle.pos.y) < Sq(t)

Within(particle, bodies, t) ==
    { i \in 1 .. Len(bodies) : Near(particle, bodies[i], t) }

First(S) == CHOOSE i \in S : \A j \in S : i <= j

IsFirstWithin(result, within) ==
    IF within = { } THEN result = None ELSE result = Some(First(within) - 1)

\* C2: check_collision returns Some(i) for the smallest 0-based index i of
\* a body whose centre is strictly nearer than the threshold, whether or not
\* a later body is nearer still, and None exactly when no body of the list
\* is (the empty list, a threshold of 0, a body exactly at the threshold).
C2_FirstBodyWithinThreshold ==
    Returned("check_collision") =>
        IsFirstWithin(phys.result, Within(phys.particle, phys.bodies, phys.threshold))

\* Index 0 is returned although the body of index 1 is nearer.
C2_Witness ==
    /\ Returned("check_collision")
    /\ phys.result = Some(0)
    /\ Len(phys.bodies) >= 2
    /\ distance(phys.particle.pos, phys.bodies[2].pos)
         < distance(phys.particle.pos, phys.bodies[1].pos)

(***************************************************************************)
(* update_particle_euler                                                   *)
(***************************************************************************)
EulerPost(before, acceleration, dt, after) ==
    /\ after.vel = Vec2(FAdd(before.vel.x, FMul(acceleration.x, dt)),
                        FAdd(before.vel.y, FMul(acceleration.y, dt)))
    /\ after.pos = Vec2(FAdd(before.pos.x, FMul(after.vel.x, dt)),
                        FAdd(before.pos.y, FMul(after.vel.y, dt)))
    /\ after.mass = before.mass
    /\ after.radius = before.radius

\* C8: update_particle_euler evaluates the acceleration once, at the
\* position the particle has before the step; the velocity after the step
\* is the old velocity plus that acceleration times dt, the position after
\* it is the old position plus the NEW velocity times dt, and mass and
\* radius are as before.
C8_EulerStep ==
    phys.op = "update_particle_euler" =>
        /\ phys.accel_evals = IF phys.pc = "acceleration" THEN 0 ELSE 1
        /\ phys.pc # "acceleration" =>
             /\ phys.eval_pos = Some(phys.original.pos)
             /\ phys.acceleration =
                  Some(calculate_acceleration(phys.original, phys.bodies))
        /\ phys.pc = "returned" =>
             /\ phys.particle =
                  update_particle_euler(phys.original, phys.bodies, phys.dt)
             /\ EulerPost(phys.original,
                          calculate_acceleration(phys.original, phys.bodies),
                          phys.dt,
                          update_particle_euler(phys.original, phys.bodies, phys.dt))

\* A step under a non-zero acceleration of a particle that is moving.
C8_Witness ==
    /\ Returned("update_particle_euler")
    /\ phys.original.mass > 0
    /\ phys.original.vel # Vec2(0, 0)
    /\ Unwrap(phys.acceleration) # Vec2(0, 0)
    /\ phys.particle.vel # phys.original.vel
    /\ phys.particle.pos # vadd(phys.original.pos, vmul(phys.original.vel, phys.dt))

(***************************************************************************)
(* Zero acceleration                                                       *)
(***************************************************************************)
Massless(bodies) == \A i \in 1 .. Len(bodies) : bodies[i].mass = 0

StraightLine(before, after, dt) ==
    /\ after.vel = before.vel
    /\ after.pos = vadd(before.pos, vmul(before.vel, dt))

AllStraightLine(before, after, dt) ==
    /\ Len(after) = Len(before)
    /\ \A i \in 1 .. Len(before) : StraightLine(before[i], after[i], dt)

ParticleCallUnderNoForce ==
    /\ \/ Returned("update_particle_euler")
       \/ Returned("update_particle_rk4")
    /\ Massless(phys.bodies)
    /\ phys.original.mass > 0

\* C9 (as claimed): with no other bodies, or with all masses zero, a step of
\* update_particle_euler, update_particle_rk4 or update_bodies leaves the
\* velocity unchanged and moves the position by velocity * dt.
C9_StraightLineAsClaimed ==
    /\ ParticleCallUnderNoForce =>
         StraightLine(phys.original, phys.particle, phys.dt)
    /\ (Returned("update_bodies")
          /\ (Len(phys.original) = 1 \/ Massless(phys.original))) =>
         AllStraightLine(phys.original, phys.bodies, phys.dt)

\* C9 (amended): a step moves a body of mass > 0 in a straight line,
\* velocity unchanged and position advanced by velocity * dt, when nothing
\* attracts it: for update_particle_euler and update_particle_rk4 when the
\* list of wells is empty or all wells have mass zero, for update_bodies
\* when the array holds that body alone.
C9_StraightLine ==
    /\ ParticleCallUnderNoForce =>
         StraightLine(phys.original, phys.particle, phys.dt)
    /\ (Returned("update_bodies")
          /\ Len(phys.original) = 1 /\ phys.original[1].mass > 0) =>
         AllStraightLine(phys.original, phys.bodies, phys.dt)

\* An RK4 step of a moving particle among wells of mass zero.
C9_Witness ==
    /\ Returned("update_particle_rk4")
    /\ Len(phys.bodies) > 0
    /\ Massless(phys.bodies)
    /\ phys.original.mass > 0
    /\ phys.original.vel # Vec2(0, 0)
    /\ phys.particle.pos # phys.original.pos

(***************************************************************************)
(* The force law                                                           *)
(***************************************************************************)
\* g * m1 * m2 / d2 for the squared distance d2, in units of 1/ONE.
InverseSquare(g, m1, m2, d2) == TDiv(g * m1 * m2 * ONE, d2)

Magnitude(f) == ISqrt(Sq(f.x) + Sq(f.y))

\* f has the magnitude e up to the rounding of the representation: the unit
\* vector and the product are each rounded towards zero.
MagnitudeNear(f, e) ==
    /\ Magnitude(f) <= e
    /\ 4 * Magnitude(f) + 8 >= 3 * e

\* f points along (dx, dy), up to the same rounding.
Towards(f, dx, dy) ==
    /\ f.x * dx >= 0
    /\ f.y * dy >= 0
    /\ 8 * Abs(f.x * dy - f.y * dx) <= (Abs(dx) + Abs(dy)) * (Magnitude(f) + 8)

ForceLaw(g, dx, dy, m1, m2, f) ==
    IF dx = 0 /\ dy = 0 THEN f = Vec2(0, 0)
    ELSE /\ MagnitudeNear(f, InverseSquare(g, m1, m2, Sq(dx) + Sq(dy)))
         /\ Towards(f, dx, dy)

\* C10: for two bodies at the same position calculate_gravitational_force
\* and grav_force return exactly (0, 0); otherwise the force on the first
\* body has the magnitude G * m1 * m2 / distance^2 and points from it
\* towards the other body.
C10_ForceLaw ==
    /\ Returned("calculate_gravitational_force") =>
         ForceLaw(G, phys.body.pos.x - phys.particle.pos.x,
                  phys.body.pos.y - phys.particle.pos.y,
                  phys.particle.mass, phys.body.mass, Unwrap(phys.result))
    /\ Returned("grav_force") =>
         ForceLaw(G_lib, phys.other.pos.x - phys.self.pos.x,
                  phys.other.pos.y - phys.self.pos.y,
                  phys.self.mass, phys.other.mass, Unwrap(phys.result))

\* A force between two bodies at the same position, both of mass > 0.
C10_WitnessSamePosition ==
    /\ Returned("calculate_gravitational_force")
    /\ phys.body.pos = phys.particle.pos
    /\ phys.body.mass > 0 /\ phys.particle.mass > 0

(***************************************************************************)
(* lib.rs: update_bodies, statement by statement                           *)
(*                                                                         *)
(* stage 1..4 is the stage whose k is being computed; pc is "accels" before *)
(* `let accels = get_accelerations(..)`, "loop" inside the `for i in 0..n`  *)
(* that follows it, "final" inside the last loop.  k_vel[s] and k_pos[s]   *)
(* are the arrays ks_vel and ks_pos.  accels_read is the array that        *)
(* get_accelerations was last given, and temp_stage[i] the stage that      *)
(* temp_bodies[i] has been advanced to.                                    *)
(***************************************************************************)
Zeros(n) == FilledVec(LAMBDA i : Vec2(0, 0), n)
Ones(n) == FilledVec(LAMBDA i : 1, n)

ub_new(bodies, dt) ==
    [ pc              |-> "accels",
      stage           |-> 1,
      i               |-> 1,
      dt              |-> dt,
      caller_bodies   |-> bodies,
      bodies          |-> bodies,
      original_bodies |-> bodies,
      temp_bodies     |-> bodies,
      accels          |-> << >>,
      k_vel           |-> FilledVec(LAMBDA s : Zeros(Len(bodies)), 4),
      k_pos           |-> FilledVec(LAMBDA s : Zeros(Len(bodies)), 4),
      accels_read     |-> << >>,
      temp_stage      |-> Ones(Len(bodies)) ]

\* The end of a loop over the bodies: to the next stage, the final loop or
\* the return.
AfterLoop(u) ==
    IF u.pc = "final" THEN [u EXCEPT !.pc = "returned"]
    ELSE IF u.stage = 4 THEN [u EXCEPT !.pc = IF Len(u.bodies) = 0 THEN "returned" ELSE "final", !.i = 1]
    ELSE [u EXCEPT !.pc = "accels", !.stage = @ + 1, !.i = 1]

NextBody(u) ==
    IF u.i >= Len(u.bodies) THEN AfterLoop(u) ELSE [u EXCEPT !.i = @ + 1]

\* let accels = get_accelerations(&original_bodies) for k1,
\*              get_accelerations(&temp_bodies) for k2, k3, k4
StageInput(u) == IF u.stage = 1 THEN u.original_bodies ELSE u.temp_bodies

stage_accels(u) ==
    [u EXCEPT !.accels = get_accelerations(StageInput(u)),
              !.accels_read = StageInput(u),
              !.pc = "loop",
              !.i = 1]

\* The fraction of k that the temporary body of the next stage is advanced by.
StageFraction(stage) == IF stage = 3 THEN ONE ELSE HALF

\* ks_vel[i] = accels[i] * dt; ks_pos[i] = (this stage's body i).vel * dt
StoreK(u, accel) ==
    [u EXCEPT !.k_vel[u.stage][u.i] = vmul(accel, u.dt),
              !.k_pos[u.stage][u.i] = vmul(StageInput(u)[u.i].vel, u.dt)]

\* temp_bodies[i] = original_bodies[i] advanced by this stage's k (k1..k3)
AdvanceTemp(u) ==
    IF u.stage = 4 THEN u
    ELSE [u EXCEPT
            !.temp_bodies[u.i].pos =
                vadd(u.original_bodies[u.i].pos,
                     vmul(u.k_pos[u.stage][u.i], StageFraction(u.stage))),
            !.temp_bodies[u.i].vel =
                vadd(u.original_bodies[u.i].vel,
                     vmul(u.k_vel[u.stage][u.i], StageFraction(u.stage))),
            !.temp_stage[u.i] = u.stage + 1]

\* An iteration that takes the acceleration of body i from the temporary
\* array as it is now, the bodies before i already advanced.
stage_body_in_place(u) ==
    NextBody(AdvanceTemp(StoreK(u, get_accelerations(StageInput(u))[u.i])))

\* One iteration of the loop of a stage.
stage_body(u) == NextBody(AdvanceTemp(StoreK(u, u.accels[u.i])))

\* One iteration of the final loop: bodies[i].pos = ..; bodies[i].vel = ..
final_body(u) ==
    NextBody([u EXCEPT
        !.bodies[u.i] = FinalBody(u.original_bodies[u.i],
                                  [pos |-> u.k_pos[1][u.i], vel |-> u.k_vel[1][u.i]],
                                  [pos |-> u.k_pos[2][u.i], vel |-> u.k_vel[2][u.i]],
                                  [pos |-> u.k_pos[3][u.i], vel |-> u.k_vel[3][u.i]],
                                  [pos |-> u.k_pos[4][u.i], vel |-> u.k_vel[4][u.i]])])

BodiesInit ==
    /\ program = "update_bodies"
    /\ InputIdle
    /\ RunIdle
    /\ SweepIdle
    /\ phys = Idle
    /\ \E bodies \in BodyLists, dt \in TimeSteps : ub = ub_new(bodies, dt)

UbAccelerations ==
    /\ ub.pc = "accels"
    /\ ub' = IF Len(ub.bodies) = 0
             THEN AfterLoop([stage_accels(ub) EXCEPT !.pc = "loop"])
             ELSE stage_accels(ub)
    /\ UNCHANGED << inputVars, runVars, phys, sweepVars >>

UbStageBody ==
    /\ ub.pc = "loop"
    /\ ub' = stage_body(ub)
    /\ UNCHANGED << inputVars, runVars, phys, sweepVars >>

UbFinalBody ==
    /\ ub.pc = "final"
    /\ ub' = final_body(ub)
    /\ UNCHANGED << inputVars, runVars, phys, sweepVars >>

BodiesNext == UbAccelerations \/ UbStageBody \/ UbFinalBody

SpecBodies == BodiesInit /\ [][BodiesNext]_vars

\* The arrays ks_vel, ks_pos of stage s as one array of pairs.
KOf(u, s) ==
    FilledVec(LAMBDA i : [pos |-> u.k_pos[s][i], vel |-> u.k_vel[s][i]],
              Len(u.original_bodies))

\* The array in which every body is at stage s: the original state for k1,
\* original + k1/2, original + k2/2 and original + k3 for k2, k3 and k4.
Snapshot(u, s) ==
    IF s = 1 THEN u.original_bodies
    ELSE StageTemp(u.original_bodies, KOf(u, s - 1), StageFraction(s - 1))

\* The stages whose loop has dealt with body j.
StagesDone(u, j) ==
    { s \in 1 .. 4 :
        \/ u.pc \in { "final", "returned" }
        \/ s < u.stage
        \/ s = u.stage /\ u.pc = "loop" /\ j < u.i }

KFromSnapshot(u, s, snapshot, accels) ==
    \A j \in 1 .. Len(u.original_bodies) :
        s \in StagesDone(u, j) =>
            /\ u.k_vel[s][j] = vmul(accels[j], u.dt)
            /\ u.k_pos[s][j] = vmul(snapshot[j].vel, u.dt)

FinalFromOwnK(u, k1, k2, k3, k4) ==
    \A j \in 1 .. Len(u.original_bodies) :
        u.bodies[j] =
            IF u.pc = "returned" \/ (u.pc = "final" /\ j < u.i)
            THEN FinalBody(u.original_bodies[j], k1[j], k2[j], k3[j], k4[j])
            ELSE u.caller_bodies[j]

\* C7: in update_bodies the accelerations of a stage are computed from one
\* array in which every body is at that stage (the original bodies for k1,
\* original + k1/2, + k2/2, + k3 for k2, k3, k4), so every k of every body
\* comes from such a snapshot and never from an array that the loop has
\* partly advanced; the caller's array is unchanged until the final loop,
\* and there body i becomes its original state plus the weighted sum of its
\* own k1..k4.
C7_StagesReadOneSnapshot ==
    ub.pc # "idle" =>
        /\ ub.original_bodies = ub.caller_bodies
        /\ ub.pc = "loop" =>
             /\ ub.accels_read = Snapshot(ub, ub.stage)
             /\ ub.accels = get_accelerations(Snapshot(ub, ub.stage))
        /\ \A s \in 1 .. 4 :
             (s < ub.stage \/ ub.pc # "accels") /\ s <= ub.stage =>
                KFromSnapshot(ub, s, Snapshot(ub, s),
                              get_accelerations(Snapshot(ub, s)))
        /\ FinalFromOwnK(ub, KOf(ub, 1), KOf(ub, 2), KOf(ub, 3), KOf(ub, 4))
        /\ ub.pc = "returned" =>
             ub.bodies = update_bodies(ub.caller_bodies, ub.dt)

\* In the loop of k3, body 1 already advanced to the state for k4 and the
\* others not, all three attracting each other: the acceleration of body 2
\* in the array as it is now differs from the one taken before the loop.
C7_Witness ==
    /\ ub.pc = "loop" /\ ub.stage = 3 /\ ub.i = 2
    /\ ub.temp_stage = << 4, 3, 3 >>
    /\ ub.temp_bodies[1] # ub.accels_read[1]
    /\ \A j \in 1 .. 3 : ub.accels[j] # Vec2(0, 0) /\ ub.accels[j].x # NaN
    /\ get_accelerations(ub.temp_bodies)[2] # ub.accels[2]

(***************************************************************************)
(* image_gen.rs: generate_gravity_wells_image, and the stability image of  *)
(* example/main.rs                                                         *)
(*                                                                         *)
(* par_iter_mut().enumerate().for_each hands every pair (i, &mut pixels[i]) *)
(* to some worker of the pool; a worker runs one closure call at a time,   *)
(* to its end.  A step of a worker is one iteration of the inner loop of    *)
(* the run its closure call makes.                                          *)
(***************************************************************************)
IMAGE_SIZE == 2
NumWorkers == 2
\* if count % 1000 == 0: the interval of the bar, scaled down with the image.
BAR_INTERVAL == 2

num_pixels == IMAGE_SIZE * IMAGE_SIZE
Cells == 0 .. num_pixels - 1
Workers == 1 .. NumWorkers

\* let px = i % IMAGE_SIZE; let py = i / IMAGE_SIZE;
cell_px(i) == i % IMAGE_SIZE
cell_py(i) == i \div IMAGE_SIZE

\* Vec2::new(px / zoom_factor - camera_offset.x, py / zoom_factor - camera_offset.y)
world_pos(i, zoom, camera) ==
    Vec2(FSub(FDiv(Fx(cell_px(i)), zoom), camera.x),
         FSub(FDiv(Fx(cell_py(i)), zoom), camera.y))

\* `x as u8` of an f32: the integer part, saturated.
as_u8(x) == IF x = NaN \/ x < 0 THEN 0 ELSE IF TDiv(x, ONE) > 255 THEN 255 ELSE TDiv(x, ONE)

min_intensity == TDiv(15 * ONE, 100)
max_intensity == TDiv(85 * ONE, 100)

\* (1.0 - collision_time / max_time).max(0.0) * (max - min) + min
final_intensity(time) ==
    FAdd(FMul(Max(FSub(ONE, FDiv(Fx(time), Fx(SIMULATION_TIMESTEPS))), 0),
              max_intensity - min_intensity),
         min_intensity)

scaled(color, intensity) ==
    << as_u8(FMul(Fx(color[1]), intensity)),
       as_u8(FMul(Fx(color[2]), intensity)),
       as_u8(FMul(Fx(color[3]), intensity)) >>

\* The pixel of a cell whose run returned `outcome`.
pixel_of(outcome, bodies) ==
    IF IsSome(outcome)
    THEN scaled(bodies[Unwrap(outcome)[1] + 1].color, final_intensity(Unwrap(outcome)[2]))
    ELSE DEFAULT_NON_COLLISION_COLOR

\* example/main.rs: the range of the initial velocities of the image.
VY1_MIN == 0
VY1_MAX == HALF
VY2_MIN == -ONE
VY2_MAX == 0

\* vy = MIN + (MAX - MIN) * (p as f32 / (IMAGE_SIZE - 1) as f32)
cell_vy(lo, hi, p) == FAdd(lo, FMul(hi - lo, FDiv(Fx(p), Fx(IMAGE_SIZE - 1))))

cell_bodies(i) ==
    ThreeBodies(cell_vy(VY1_MIN, VY1_MAX, cell_px(i)),
                cell_vy(VY2_MIN, VY2_MAX, cell_py(i)))

\* ((time_to_collision / SIMULATION_TIMESTEPS).min(1.0) * 255.0) as u8, thrice
gray_of(time) ==
    scaled(<< 255, 255, 255 >>,
           IF FDiv(Fx(time), Fx(SIMULATION_TIMESTEPS)) > ONE THEN ONE
           ELSE FDiv(Fx(time), Fx(SIMULATION_TIMESTEPS)))

\* The slot of the vector that the closure call of cell i holds as `pixel`.
pixel_slot(i) == i + 1

\* All workers running in one and the same frame.
frame_shared(w) == 1

\* The locals of a closure call (the particle, the body array) live in the
\* stack frame of the worker that runs it.
frame_of(w) == w

SweepCameras == { Vec2(0, 0), Vec2(Fx(-32), Fx(-16)) }
SweepWells == { << Well(0, 0, 8, Red), Well(20, 0, 4, Green) >> }

RECURSIVE Batch3Loop(_)
Batch3Loop(b) == IF b.pc = "returned" THEN b ELSE Batch3Loop(batch3_iteration(b))

\* run_simulation(&mut bodies) of example/main.rs, from call to return.
run_simulation(bodies) == Batch3Loop(batch3_new(bodies)).result

\* writers[k]: the cells whose closure calls have written pixels[k];
\* outcomes[k]: what the run of cell k - 1 returned to its closure call;
\* direct[k]: what a direct call for that cell returns, taken before the
\* sweep starts;
\* counts[k]: the value fetch_add returned to the closure call of cell k - 1;
\* bar_set: the counts that set_position has been called with.
audit_new(Direct(_)) ==
    [ writers  |-> FilledVec(LAMBDA k : { }, num_pixels),
      outcomes |-> FilledVec(LAMBDA k : None, num_pixels),
      direct   |-> FilledVec(LAMBDA k : Direct(k - 1), num_pixels),
      counts   |-> FilledVec(LAMBDA k : None, num_pixels),
      bar_set  |-> { } ]

SweepStart(default) ==
    /\ pixels = FilledVec(LAMBDA k : default, num_pixels)
    /\ frames = FilledVec(LAMBDA w : Idle, NumWorkers)
    /\ jobs = FilledVec(LAMBDA w : None, NumWorkers)
    /\ pending = Cells
    /\ image = None

WellsSweepInit ==
    /\ program = "wells_sweep"
    /\ host = Idle
    /\ start_pos = Vec2(0, 0)
    /\ initial_velocity = Vec2(0, 0)
    /\ stationary_bodies \in SweepWells
    /\ integration_method \in IntegrationMethods
    /\ initial_bodies = << >>
    /\ camera_offset \in SweepCameras
    /\ zoom_factor = ONE \div 16
    /\ SweepStart(DEFAULT_NON_COLLISION_COLOR)
    /\ progress = [counter |-> 0, bar |-> 0]
    /\ audit = audit_new(LAMBDA i :
                   run_simulation_with_time(world_pos(i, zoom_factor, camera_offset),
                                            initial_velocity, stationary_bodies,
                                            integration_method))

ThreeBodySweepInit ==
    /\ program = "three_body_sweep"
    /\ InputIdle
    /\ SweepStart(<< 0, 0, 0 >>)
    /\ progress = Idle
    /\ audit = audit_new(LAMBDA i : run_simulation(cell_bodies(i)))

SweepInit ==
    /\ WellsSweepInit \/ ThreeBodySweepInit
    /\ RunIdle
    /\ CallIdle

\* A worker of the pool takes a cell and enters the closure: the run starts.
SweepClaim(w, i) ==
    /\ program = "wells_sweep"
    /\ jobs[w] = None /\ i \in pending
    /\ jobs' = [jobs EXCEPT ![w] = Some(i)]
    /\ pending' = pending \ { i }
    /\ frames' = [frames EXCEPT ![frame_of(w)] =
                    batch_new(world_pos(i, zoom_factor, camera_offset), initial_velocity)]
    /\ UNCHANGED << inputVars, runVars, callVars, pixels, progress, image, audit >>

\* One iteration of the inner loop of the run_simulation_with_time call.
SweepSubstep(w) ==
    /\ program = "wells_sweep"
    /\ jobs[w] # None /\ frames[frame_of(w)].pc = "running"
    /\ frames' = [frames EXCEPT ![frame_of(w)] =
                    batch_iteration(@, stationary_bodies, integration_method)]
    /\ UNCHANGED << inputVars, runVars, callVars, pixels, jobs, pending, progress,
                    image, audit >>

Written(a, i, outcome) ==
    [a EXCEPT !.writers[pixel_slot(i)] = @ \cup { i }, !.outcomes[i + 1] = Some(outcome)]

\* let count = counter.fetch_add(1, Ordering::Relaxed): one atomic
\* read-modify-write, returning the value before it.
fetch_add(p) == [p EXCEPT !.counter = @ + 1]

CountTaken(a, i, count) == [a EXCEPT !.counts[i + 1] = Some(count)]

\* A closure that updates the bar whatever count it got.
bar_due_every_cell(count) == TRUE

\* if count % 1000 == 0
bar_due(count) == count % BAR_INTERVAL = 0

\* bar.set_position(count as u64)
set_position(p, count) == [p EXCEPT !.bar = count]

\* The run has returned: the pixel is coloured and the call counted.  A
\* call whose count is due for the bar goes on to set_position, the others
\* are over.
SweepWritePixel(w) ==
    /\ program = "wells_sweep"
    /\ jobs[w] # None /\ frames[frame_of(w)].pc = "returned"
    /\ pixels' = [pixels EXCEPT ![pixel_slot(Unwrap(jobs[w]))] =
                    pixel_of(frames[frame_of(w)].result, stationary_bodies)]
    /\ audit' = CountTaken(Written(audit, Unwrap(jobs[w]), frames[frame_of(w)].result),
                           Unwrap(jobs[w]), progress.counter)
    /\ progress' = fetch_add(progress)
    /\ IF bar_due(progress.counter)
       THEN /\ frames' = [frames EXCEPT ![frame_of(w)] =
                            [pc |-> "bar", count |-> progress.counter]]
            /\ jobs' = jobs
       ELSE /\ frames' = [frames EXCEPT ![frame_of(w)] = Idle]
            /\ jobs' = [jobs EXCEPT ![w] = None]
    /\ UNCHANGED << inputVars, runVars, callVars, pending, image >>

\* bar.set_position(count), whenever the call gets to it.
SweepSetBar(w) ==
    /\ program = "wells_sweep"
    /\ jobs[w] # None /\ frames[frame_of(w)].pc = "bar"
    /\ progress' = set_position(progress, frames[frame_of(w)].count)
    /\ audit' = [audit EXCEPT !.bar_set = @ \cup { frames[frame_of(w)].count }]
    /\ jobs' = [jobs EXCEPT ![w] = None]
    /\ frames' = [frames EXCEPT ![frame_of(w)] = Idle]
    /\ UNCHANGED << inputVars, runVars, callVars, pixels, pending, image >>

Sweep3Claim(w, i) ==
    /\ program = "three_body_sweep"
    /\ jobs[w] = None /\ i \in pending
    /\ jobs' = [jobs EXCEPT ![w] = Some(i)]
    /\ pending' = pending \ { i }
    /\ frames' = [frames EXCEPT ![frame_of(w)] = batch3_new(cell_bodies(i))]
    /\ UNCHANGED << inputVars, runVars, callVars, pixels, progress, image, audit >>

Sweep3Substep(w) ==
    /\ program = "three_body_sweep"
    /\ jobs[w] # None /\ frames[frame_of(w)].pc = "running"
    /\ frames' = [frames EXCEPT ![frame_of(w)] = batch3_iteration(@)]
    /\ UNCHANGED << inputVars, runVars, callVars, pixels, jobs, pending, progress,
                    image, audit >>

Sweep3WritePixel(w) ==
    /\ program = "three_body_sweep"
    /\ jobs[w] # None /\ frames[frame_of(w)].pc = "returned"
    /\ pixels' = [pixels EXCEPT ![pixel_slot(Unwrap(jobs[w]))] =
                    gray_of(frames[frame_of(w)].result)]
    /\ audit' = Written(audit, Unwrap(jobs[w]), frames[frame_of(w)].result)
    /\ jobs' = [jobs EXCEPT ![w] = None]
    /\ frames' = [frames EXCEPT ![frame_of(w)] = Idle]
    /\ UNCHANGED << inputVars, runVars, callVars, pending, progress, image >>

SweepOver == pending = { } /\ \A w \in Workers : jobs[w] = None

\* The image read from the vector column by column.
SweepAssembleColumnMajor ==
    /\ program \in { "wells_sweep", "three_body_sweep" }
    /\ SweepOver /\ image = None
    /\ image' = Some([c \in (0 .. IMAGE_SIZE - 1) \X (0 .. IMAGE_SIZE - 1) |->
                        pixels[c[1] * IMAGE_SIZE + c[2] + 1]])
    /\ UNCHANGED << inputVars, runVars, callVars, pixels, frames, jobs, pending,
                    progress, audit >>

\* for (px, py, pixel) in img.enumerate_pixels_mut() { *pixel = pixels[py * IMAGE_SIZE + px] }
SweepAssemble ==
    /\ program \in { "wells_sweep", "three_body_sweep" }
    /\ SweepOver /\ image = None
    /\ image' = Some([c \in (0 .. IMAGE_SIZE - 1) \X (0 .. IMAGE_SIZE - 1) |->
                        pixels[c[2] * IMAGE_SIZE + c[1] + 1]])
    /\ UNCHANGED << inputVars, runVars, callVars, pixels, frames, jobs, pending,
                    progress, audit >>

SweepNext ==
    \/ \E w \in Workers, i \in Cells : SweepClaim(w, i)
    \/ \E w \in Workers : SweepSubstep(w)
    \/ \E w \in Workers : SweepWritePixel(w)
    \/ \E w \in Workers : SweepSetBar(w)
    \/ \E w \in Workers, i \in Cells : Sweep3Claim(w, i)
    \/ \E w \in Workers : Sweep3Substep(w)
    \/ \E w \in Workers : Sweep3WritePixel(w)
    \/ SweepAssemble

SpecSweep == SweepInit /\ [][SweepNext]_vars

Sweeping == program \in { "wells_sweep", "three_body_sweep" }

\* The pixel that the closure of this program makes of an outcome.
PixelFor(outcome) ==
    IF program = "wells_sweep" THEN pixel_of(outcome, stationary_bodies)
    ELSE gray_of(outcome)

CellIsDirect(k) ==
    /\ audit.writers[k] \subseteq { k - 1 }
    /\ IF audit.outcomes[k] = None
       THEN /\ audit.writers[k] = { }
            /\ pixels[k] = IF program = "wells_sweep"
                           THEN DEFAULT_NON_COLLISION_COLOR ELSE << 0, 0, 0 >>
       ELSE /\ audit.writers[k] = { k - 1 }
            /\ audit.outcomes[k] = Some(audit.direct[k])
            /\ pixels[k] = PixelFor(audit.direct[k])

\* C5: in whatever order and interleaving the workers take the cells and
\* step their runs, the outcome a cell's closure call gets, and colours its
\* pixel with, is the result of a direct call of run_simulation_with_time
\* (run_simulation for the three bodies) with that cell's initial
\* condition; a pixel is written by the call for its own cell only, and
\* until then keeps the default colour; every worker at a cell has the
\* locals of its run in a frame of its own, and a worker at no cell has none.
C5_SweepCellsAreDirectRuns ==
    Sweeping =>
        /\ \A k \in 1 .. num_pixels : CellIsDirect(k)
        /\ \A w \in Workers : (jobs[w] = None) = (frames[w] = Idle)
        /\ image # None =>
             \A k \in 1 .. num_pixels : audit.outcomes[k] # None

\* Two runs in flight at once, each some substeps into its run, after a
\* cell that ended in a collision has been written.
C5_Witness ==
    /\ program = "wells_sweep"
    /\ \A w \in Workers :
         jobs[w] # None /\ frames[w].pc = "running" /\ frames[w].integrations >= 2
    /\ frames[1].particle # frames[2].particle
    /\ \E k \in 1 .. num_pixels :
         /\ audit.outcomes[k] # None
         /\ IsSome(Unwrap(audit.outcomes[k]))
         /\ pixels[k] # DEFAULT_NON_COLLISION_COLOR

(***************************************************************************)
(* Runs that start inside the collision threshold of a well                *)
(***************************************************************************)
StartsWithinThreshold ==
    program = "wells" /\ Collides(StartParticle, stationary_bodies)

\* C11 (as claimed): a run whose particle starts within the collision
\* threshold of a well (on the well itself included) ends as a collision,
\* whatever the initial velocity and the integration method: the batch run
\* returns Some(..) and the finished live replay has collision_body_index set.
C11_StartWithinThresholdCollides ==
    StartsWithinThreshold =>
        /\ BatchReturned => IsSome(batch.result)
        /\ LiveFinished => IsSome(live.collision_body_index)

(***************************************************************************)
(* All the programs together: the runs and replays, the single calls of    *)
(* the physics functions and the sweeps                                    *)
(***************************************************************************)
ProgramsNext == RunNext \/ (program = "physics" /\ PhysNext) \/ SweepNext

SpecPrograms == (RunInit \/ PhysInit \/ SweepInit) /\ [][ProgramsNext]_vars

SameBody(p, q) == p.mass = q.mass /\ p.radius = q.radius

\* The well lists there are: the one the driver owns, the replay's own Vec,
\* and the slice a physics function was called with.
WellsKept ==
    /\ stationary_bodies' = stationary_bodies
    /\ program = "wells" => live'.stationary_bodies = live.stationary_bodies
    /\ (program = "physics" /\ phys.op \in { "check_collision", "update_particle_euler",
                                             "update_particle_rk4" })
          => phys'.bodies = phys.bodies

\* The particles there are: of the batch run, of the replay, of the run of a
\* sweep cell while its worker stays on that cell, of a physics call.
ParticleBodyKept ==
    /\ program = "wells" =>
         /\ SameBody(batch'.particle, batch.particle)
         /\ SameBody(live'.particle, live.particle)
    /\ program = "wells_sweep" =>
         \A w \in Workers :
            (jobs[w] # None /\ jobs'[w] = jobs[w] /\ frames'[w].pc # "bar") =>
                SameBody(frames'[w].particle, frames[w].particle)
    /\ (program = "physics" /\ phys.op \in { "check_collision", "update_particle_euler",
                                             "update_particle_rk4" })
          => SameBody(phys'.particle, phys.particle)

\* C12: no step of a run, a replay, a sweep cell or a physics function
\* changes a well (position, mass, radius, colour) or the length or order of
\* a well list, and none changes the mass or the radius of the particle.
C12_WellsImmutable == [][WellsKept /\ ParticleBodyKept]_vars

\* A replay over three wells that has ended on a collision after its
\* particle has moved and changed velocity.
C12_Witness ==
    /\ LiveFinished
    /\ IsSome(live.collision_body_index)
    /\ live.integrations >= 2
    /\ Len(live.stationary_bodies) = 3
    /\ live.stationary_bodies = stationary_bodies
    /\ live.particle.pos # start_pos /\ live.particle.vel # initial_velocity
    /\ SameBody(live.particle, StartParticle)

(***************************************************************************)
(* The two collision-threshold policies                                    *)
(***************************************************************************)
\* A displacement (dx, dy) strictly shorter than t (t >= 0), by the squares.
Shorter(dx, dy, t) ==
    Abs(dx) < t /\ Abs(dy) < t /\ Sq(dx) + Sq(dy) < Sq(t)

\* The centres of a and b are strictly nearer than the sum of their radii.
PairNear(a, b) ==
    Shorter(a.pos.x - b.pos.x, a.pos.y - b.pos.y, a.radius + b.radius)

SomePairNear(bodies) ==
    \E i \in 1 .. 3, j \in 1 .. 3 : i < j /\ PairNear(bodies[i], bodies[j])

SomeWellNear(particle, bodies) ==
    \E i \in 1 .. Len(bodies) :
        Shorter(bodies[i].pos.x - particle.pos.x, bodies[i].pos.y - particle.pos.y,
                Fx(COLLISION_THRESHOLD))

\* C13: among the three bodies a collision is declared exactly when some
\* pair of (0,1), (0,2), (1,2) has its centres strictly nearer than the sum
\* of the radii of that pair, by the batch run and by the live loop alike;
\* among the wells it is declared exactly when some well's centre is
\* strictly nearer to the particle than COLLISION_THRESHOLD, whatever the
\* radii of the well and of the particle.
C13_ThresholdPolicies ==
    /\ Returned("pairs_collide") =>
         /\ phys.batch = Some(SomePairNear(phys.bodies))
         /\ phys.live = Some(SomePairNear(phys.bodies))
    /\ Returned("run_collision_test") =>
         IsSome(phys.result) = SomeWellNear(phys.particle, phys.bodies)
    /\ BatchReturned =>
         IsSome(batch.result) = SomeWellNear(batch.particle, stationary_bodies)
    /\ (program = "wells" /\ live.integrations > 0) =>
         IsSome(live.collision_body_index) = SomeWellNear(live.particle, live.stationary_bodies)
    /\ Batch3Returned =>
         (batch3.result # SIMULATION_TIMESTEPS) = SomePairNear(batch3.bodies)
    /\ (program = "three_body" /\ live3.integrations > 0) =>
         live3.collided = SomePairNear(live3.bodies)

\* Only the pair (0,2) collides, and by the sum of its two different radii:
\* twice the smaller one would not reach.
C13_Witness ==
    /\ Returned("pairs_collide")
    /\ phys.batch = Some(TRUE) /\ phys.live = Some(TRUE)
    /\ ~PairNear(phys.bodies[1], phys.bodies[2])
    /\ ~PairNear(phys.bodies[2], phys.bodies[3])
    /\ phys.bodies[1].radius < phys.bodies[3].radius
    /\ distance(phys.bodies[1].pos, phys.bodies[3].pos) >= 2 * phys.bodies[1].radius

(***************************************************************************)
(* Termination of a run                                                    *)
(***************************************************************************)
\* The loops of a run go on while they can, nothing in them blocks: weak
\* fairness of BatchSubstep, WF_vars(BatchSubstep), written out.  The action
\* is enabled exactly while the run is in its loops, and a step of it is a
\* step that counts one more integration.
BatchCanStep == program = "wells" /\ batch.pc = "running"
BatchStepped == program = "wells" /\ batch'.integrations = batch.integrations + 1

SpecRunFair ==
    SpecRun /\ ([]<>(~BatchCanStep) \/ []<><<BatchStepped>>_vars)

\* Running, or returned as Collided (Some) or as Exhausted (None).
RunWithinBudget ==
    /\ batch.pc \in { "running", "returned" }
    /\ batch.integrations <= Budget
    /\ batch.pc = "running" => batch.result = None /\ batch.integrations < Budget
    /\ batch.pc = "returned" =>
         /\ IsSome(batch.result) = Reference.hit
         /\ IF IsSome(batch.result)
            THEN Collides(batch.particle, stationary_bodies)
            ELSE /\ batch.integrations = Budget
                 /\ ~Collides(batch.particle, stationary_bodies)

\* C14: every run of run_simulation_with_time returns; it returns None
\* after exactly SIMULATION_TIMESTEPS * SUBSTEPS integrations when no
\* substep collides, and Some after at most that many otherwise; it is
\* never in another state than running, Collided or Exhausted, and what it
\* has returned stays.
C14_RunTerminates ==
    /\ [](program = "wells" => RunWithinBudget)
    /\ [][(program = "wells" /\ batch.pc = "returned") => batch' = batch]_vars
    /\ (program = "wells") ~> BatchReturned

\* A run among wells that attract the particle uses up its budget.
C14_Witness ==
    /\ BatchReturned
    /\ batch.result = None
    /\ batch.integrations = Budget
    /\ Len(stationary_bodies) > 0
    /\ batch.particle.vel # initial_velocity

(***************************************************************************)
(* Trajectory sampling of the live replay                                  *)
(***************************************************************************)
\* ceil(n / 5)
SamplesAfter(n) == (n + 4) \div 5

TrajectoryLength ==
    /\ Len(live.trajectory_history) = 1 + SamplesAfter(live.current_timestep)
    /\ live.trajectory_history[1] = start_pos

\* What a step does to the trajectory: a call that advances the state
\* appends the position the particle has at its end when it began at a
\* multiple of 5; nothing else touches the trajectory.
TrajectorySampled ==
    IF live'.current_timestep # live.current_timestep
    THEN live'.trajectory_history =
            IF live.current_timestep % 5 = 0
            THEN Append(live.trajectory_history, live'.particle.pos)
            ELSE live.trajectory_history
    ELSE live'.trajectory_history = live.trajectory_history

\* C15: the trajectory of a live replay starts as the single start
\* position; a step() call that advances the state appends the particle's
\* position exactly when current_timestep was a multiple of 5 at the start
\* of the call, the call that finds the collision included; so the
\* trajectory always has 1 + ceil(current_timestep / 5) points.
C15_TrajectorySampling ==
    /\ [](program = "wells" => TrajectoryLength)
    /\ [][program = "wells" => TrajectorySampled]_vars

\* The collision is found in the middle of the call that began at timestep
\* 0, and the position of the collision is the second point of the
\* trajectory.
C15_Witness ==
    /\ LiveFinished
    /\ IsSome(live.collision_body_index)
    /\ live.current_timestep = 1
    /\ live.integrations \in 2 .. SUBSTEPS - 1
    /\ live.trajectory_history = << start_pos, live.particle.pos >>
    /\ live.particle.pos # start_pos

(***************************************************************************)
(* The progress counter of the sweep                                       *)
(***************************************************************************)
Counted == { k \in 1 .. num_pixels : audit.counts[k] # None }

CountOf(k) == Unwrap(audit.counts[k])

\* The counts whose closure call has got past its `if count % 1000 == 0`.
BarCallsOver ==
    { CountOf(k) : k \in { c \in Counted : \A w \in Workers : jobs[w] # Some(c - 1) } }

SameReplay(s, t) ==
    /\ t.particle = s.particle
    /\ t.trajectory_history = s.trajectory_history
    /\ t.current_timestep = s.current_timestep
    /\ t.collision_body_index = s.collision_body_index

\* What one call of step() does, by is_finished() before it.
StepCall ==
    live'.calls = live.calls + 1 =>
        IF is_finished(live)
        THEN SameReplay(live, live') /\ is_finished(live')
        ELSE live'.current_timestep = live.current_timestep + 1

\* C17: a step() call on a replay for which is_finished() holds changes
\* nothing (particle, trajectory_history, current_timestep and
\* collision_body_index stay) and is_finished() goes on to hold; a step()
\* call on a replay for which it does not hold adds exactly 1 to
\* current_timestep; current_timestep never exceeds SIMULATION_TIMESTEPS.
C17_FinishedStepIsNoOp ==
    /\ [](program = "wells" => live.current_timestep <= SIMULATION_TIMESTEPS)
    /\ [][program = "wells" => StepCall]_vars

\* step() has been called twice and more on a replay that had ended on a
\* collision before its budget.
C17_Witness ==
    /\ LiveFinished
    /\ IsSome(live.collision_body_index)
    /\ live.current_timestep < SIMULATION_TIMESTEPS
    /\ live.calls >= live.current_timestep + 2

(***************************************************************************)
(* run_simulation against run_simulation_with_time                         *)
(***************************************************************************)
\* An Option<usize> and an Option<(usize, usize)> that are None together,
\* or hold the same body index.
SameIndex(index, with_time) ==
    IF IsSome(with_time) THEN index = Some(Unwrap(with_time)[1])
    ELSE index = None

\* C18: called with the same start position, initial velocity, wells and
\* integration method, run_simulation returns None exactly when
\* run_simulation_with_time returns None, and otherwise the body index that
\* is the first component of the pair run_simulation_with_time returns.
C18_RunsAgree ==
    Returned("run_simulation") =>
        SameIndex(Unwrap(phys.index), Unwrap(phys.with_time))

\* Both runs stop on the body of index 1, in the middle of an outer timestep
\* that is not the first.
C18_Witness ==
    /\ Returned("run_simulation")
    /\ Unwrap(phys.index) = Some(1)
    /\ IsSome(Unwrap(phys.with_time))
    /\ Unwrap(Unwrap(phys.with_time))[2] >= 1

(***************************************************************************)
(* The range of the outcomes                                               *)
(***************************************************************************)
\* 1.0 - collision_time / max_time, before the .max(0.0) of the sweep
Intensity(time) == FSub(ONE, FDiv(Fx(time), Fx(SIMULATION_TIMESTEPS)))

\* An outcome of run_simulation_with_time against the wells `bodies`.
OutcomeInRange(outcome, bodies) ==
    /\ bodies = << >> => outcome = None
    /\ IsSome(outcome) =>
         /\ Unwrap(outcome)[1] \in 0 .. Len(bodies) - 1
         /\ Unwrap(outcome)[1] + 1 \in DOMAIN bodies
         /\ Unwrap(outcome)[2] \in 0 .. SIMULATION_TIMESTEPS - 1
         /\ Intensity(Unwrap(outcome)[2]) > 0

\* C19: the pair run_simulation_with_time returns holds the index of one of
\* the wells it was given and a timestep of 0 .. SIMULATION_TIMESTEPS - 1, so
\* the sweep's stationary_bodies[collision_index] is in bounds, the intensity
\* 1 - timestep / SIMULATION_TIMESTEPS is above 0, and a run against no wells
\* returns None; run_simulation of the three bodies returns a timestep of
\* 0 .. SIMULATION_TIMESTEPS - 1 exactly when it stopped on a collision, and
\* SIMULATION_TIMESTEPS exactly when it did not.
C19_OutcomeInRange ==
    /\ BatchReturned => OutcomeInRange(batch.result, stationary_bodies)
    /\ Returned("run_simulation") =>
         OutcomeInRange(Unwrap(phys.with_time), phys.bodies)
    /\ program = "wells_sweep" =>
         /\ \A k \in 1 .. num_pixels :
               audit.outcomes[k] # None =>
                  OutcomeInRange(Unwrap(audit.outcomes[k]), stationary_bodies)
         /\ \A w \in Workers :
               (jobs[w] # None /\ frames[w].pc = "returned") =>
                  OutcomeInRange(frames[w].result, stationary_bodies)
    /\ Batch3Returned =>
         /\ batch3.result \in 0 .. SIMULATION_TIMESTEPS
         /\ (batch3.result \in 0 .. SIMULATION_TIMESTEPS - 1) = SomePairNear(batch3.bodies)
         /\ (batch3.result = SIMULATION_TIMESTEPS) = ~SomePairNear(batch3.bodies)
    /\ program = "three_body_sweep" =>
         \A k \in 1 .. num_pixels :
            audit.outcomes[k] # None =>
               Unwrap(audit.outcomes[k]) \in 0 .. SIMULATION_TIMESTEPS

\* The sweep has coloured a cell whose run stopped on the last well of the
\* list, after the first timestep.
C19_Witness ==
    /\ program = "wells_sweep"
    /\ \E k \in 1 .. num_pixels :
         /\ audit.outcomes[k] # None
         /\ IsSome(Unwrap(audit.outcomes[k]))
         /\ Unwrap(Unwrap(audit.outcomes[k]))[1] = Len(stationary_bodies) - 1
         /\ Unwrap(Unwrap(audit.outcomes[k]))[2] >= 1
         /\ pixels[k] = pixel_of(Unwrap(audit.outcomes[k]), stationary_bodies)

(***************************************************************************)
(* The layout of the cells                                                 *)
(***************************************************************************)
Columns == 0 .. IMAGE_SIZE - 1

\* The outcome of the initial condition of the pixel in column x, row y,
\* computed from the two coordinates and not from a flat index.
OutcomeAt(x, y) ==
    IF program = "wells_sweep"
    THEN run_simulation_with_time(
             Vec2(FSub(FDiv(Fx(x), zoom_factor), camera_offset.x),
                  FSub(FDiv(Fx(y), zoom_factor), camera_offset.y)),
             initial_velocity, stationary_bodies, integration_method)
    ELSE run_simulation(ThreeBodies(cell_vy(VY1_MIN, VY1_MAX, x),
                                    cell_vy(VY2_MIN, VY2_MAX, y)))

\* C20: the cells are laid out row by row: flat index i stands for column
\* i mod IMAGE_SIZE and row i div IMAGE_SIZE, both inside the image, and
\* row * IMAGE_SIZE + column gives i back; the direct result kept for the
\* slot of column x, row y is the outcome of the initial condition of (x, y);
\* and the finished image shows at (x, y) the colour of that outcome, every
\* slot having been written once, by the call for its own cell.
C20_RowMajorLayout ==
    Sweeping =>
        /\ \A i \in Cells :
              /\ cell_px(i) \in Columns /\ cell_py(i) \in Columns
              /\ cell_py(i) * IMAGE_SIZE + cell_px(i) = i
        /\ \A x \in Columns, y \in Columns :
              /\ cell_px(y * IMAGE_SIZE + x) = x
              /\ cell_py(y * IMAGE_SIZE + x) = y
        /\ image # None =>
              /\ DOMAIN Unwrap(image) = Columns \X Columns
              /\ \A x \in Columns, y \in Columns :
                    /\ Unwrap(image)[<< x, y >>] = PixelFor(OutcomeAt(x, y))
                    /\ audit.direct[y * IMAGE_SIZE + x + 1] = OutcomeAt(x, y)
                    /\ audit.writers[y * IMAGE_SIZE + x + 1] = { y * IMAGE_SIZE + x }

\* A finished image in which the pixel of column 1, row 0 and the pixel of
\* column 0, row 1 have different colours.
C20_Witness ==
    /\ Sweeping
    /\ image # None
    /\ Unwrap(image)[<< 1, 0 >>] # Unwrap(image)[<< 0, 1 >>]
    /\ Unwrap(image)[<< 1, 0 >>] = pixels[2]
    /\ Unwrap(image)[<< 0, 1 >>] = pixels[3]

(***************************************************************************)
(* main.rs: the interactive loop of the fixed-well program                  *)
(*                                                                         *)
(* One pass of `loop { .. next_frame().await }` is a frame.  A frame is     *)
(* taken in three steps: the keys that change the settings (lines 47-118), *)
(* the recalculation of the image (120-156), and the drawing with the      *)
(* mouse click and the step of the live simulation (158-311).              *)
(***************************************************************************)
MaxFrames == 3

Min(a, b) == IF a <= b THEN a ELSE b

\* {:.1} and {:.2} of format!: the decimal nearest to the value, a tie going
\* to the even digit; `scale` is 10 or 100.
Rounded(x, scale) ==
    IF (x * scale) % ONE > HALF
       \/ ((x * scale) % ONE = HALF /\ ((x * scale) \div ONE) % 2 = 1)
    THEN (x * scale) \div ONE + 1
    ELSE (x * scale) \div ONE

get_image_filename(use_rk4, vel, cam, zoom) ==
    << IF use_rk4 THEN "rk4" ELSE "euler",
       Rounded(vel.x, 10), Rounded(vel.y, 10),
       Rounded(cam.x, 10), Rounded(cam.y, 10), Rounded(zoom, 100) >>

\* if use_runge_kutta { RungeKutta4 } else { Euler }
method_of(use_runge_kutta) == IF use_runge_kutta THEN "RungeKutta4" ELSE "Euler"

\* What the window system reports in a frame: the keys that are pressed or
\* held down, and the place of a click of the left button.
KeySets ==
    { { }, { "Up" }, { "Up", "Down" }, { "Space" }, { "Space", "Left" },
      { "W", "D" }, { "Q" }, { "E", "Equal" }, { "Minus", "Right" } }
MousePositions ==
    { Vec2(Fx(1) + HALF, HALF), Vec2(Fx(IMAGE_SIZE), 0), Vec2(-ONE, HALF) }
HostWells == { << Well(0, 0, 8, Red), Well(20, 0, 4, Green) >> }

\* What becomes of the file when generate_gravity_wells_image saves it.
SaveOutcomes == { "saved", "failed", "failed_partial" }

HostInit ==
    /\ program = "host"
    /\ start_pos = Vec2(0, 0)
    /\ initial_velocity = Vec2(0, 0)
    /\ stationary_bodies \in HostWells
    /\ integration_method = "RungeKutta4"
    /\ initial_bodies = << >>
    /\ camera_offset = Vec2(0, 0)
    /\ zoom_factor = ONE
    /\ \E files \in { { }, { get_image_filename(TRUE, Vec2(0, 0), Vec2(0, 0), ONE) } } :
         host = [ pc                     |-> "keys",
                  frame                  |-> 0,
                  keys                   |-> { },
                  use_runge_kutta        |-> TRUE,
                  step_size              |-> Fx(2),
                  needs_recalculation    |-> TRUE,
                  velocity_changed       |-> FALSE,
                  camera_changed         |-> FALSE,
                  current_image_filename |->
                      get_image_filename(TRUE, Vec2(0, 0), Vec2(0, 0), ONE),
                  texture_option         |-> None,
                  live_simulation        |-> None,
                  created                |-> None,
                  selected_px            |-> None,
                  selected_py            |-> None,
                  files                  |-> files ]
    /\ RunIdle
    /\ CallIdle
    /\ SweepIdle

\* step_size after the keys = and - (lines 50-55)
step_size_after(step_size, keys) ==
    IF "Minus" \in keys
    THEN Max(FMul(IF "Equal" \in keys
                  THEN Min(FMul(step_size, TDiv(12 * ONE, 10)), Fx(50))
                  ELSE step_size,
                  TDiv(8 * ONE, 10)),
             TDiv(ONE, 10))
    ELSE IF "Equal" \in keys
         THEN Min(FMul(step_size, TDiv(12 * ONE, 10)), Fx(50))
         ELSE step_size

\* A coordinate after its two keys: -= step_size, then += step_size.
moved(value, step_size, keys, minus, plus) ==
    FAdd(IF minus \in keys THEN FSub(value, step_size) ELSE value,
         IF plus \in keys THEN step_size ELSE 0)

\* zoom_factor after the keys Q and E (lines 77-84)
zoom_after(zoom, keys) ==
    IF "E" \in keys
    THEN Min(FMul(IF "Q" \in keys
                  THEN Max(FMul(zoom, TDiv(99 * ONE, 100)), TDiv(ONE, 10))
                  ELSE zoom,
                  TDiv(101 * ONE, 100)),
             Fx(10))
    ELSE IF "Q" \in keys
         THEN Max(FMul(zoom, TDiv(99 * ONE, 100)), TDiv(ONE, 10))
         ELSE zoom

camera_keys(keys) == keys \cap { "W", "S", "A", "D", "Q", "E" } # { }
velocity_keys(keys) == keys \cap { "Up", "Down", "Left", "Right", "Space" } # { }

\* A loop that keeps the live simulation when the settings change.
settings_changed_keep(h, keys) ==
    [h EXCEPT !.needs_recalculation = TRUE]

\* if velocity_changed || camera_changed { .. } (lines 112-118)
settings_changed(h, keys) ==
    [h EXCEPT !.needs_recalculation = TRUE,
              !.live_simulation = None,
              !.selected_px = None,
              !.selected_py = None]

\* Lines 47-118 of a frame in which `keys` are pressed or down.
HostKeys(keys) ==
    /\ program = "host"
    /\ host.pc = "keys"
    /\ host.frame < MaxFrames
    /\ camera_offset' =
         Vec2(moved(camera_offset.x, step_size_after(host.step_size, keys), keys, "A", "D"),
              moved(camera_offset.y, step_size_after(host.step_size, keys), keys, "W", "S"))
    /\ zoom_factor' = zoom_after(zoom_factor, keys)
    /\ initial_velocity' =
         Vec2(moved(initial_velocity.x, step_size_after(host.step_size, keys), keys,
                    "Left", "Right"),
              moved(initial_velocity.y, step_size_after(host.step_size, keys), keys,
                    "Up", "Down"))
    /\ host' =
         [ (IF velocity_keys(keys) \/ camera_keys(keys)
            THEN settings_changed(host, keys) ELSE host)
           EXCEPT !.pc = "recalculate",
                  !.keys = keys,
                  !.step_size = step_size_after(host.step_size, keys),
                  !.use_runge_kutta = IF "Space" \in keys THEN ~@ ELSE @,
                  !.velocity_changed = velocity_keys(keys),
                  !.camera_changed = camera_keys(keys) ]
    /\ UNCHANGED << program, start_pos, stationary_bodies, integration_method,
                    initial_bodies, runVars, callVars, sweepVars >>

\* Lines 143-156: the texture of `name` is loaded.
texture_loaded(h, name, files) ==
    [h EXCEPT !.current_image_filename = name,
              !.texture_option = Some(name),
              !.needs_recalculation = FALSE,
              !.files = files,
              !.pc = "draw"]

\* Lines 149-156 when Enter has recalculated nothing.
texture_checked(h) ==
    IF h.texture_option = None /\ ~h.needs_recalculation
    THEN IF h.current_image_filename \in h.files
         THEN [h EXCEPT !.texture_option = Some(h.current_image_filename), !.pc = "draw"]
         ELSE [h EXCEPT !.needs_recalculation = TRUE, !.pc = "draw"]
    ELSE [h EXCEPT !.pc = "draw"]

\* Lines 120-156 of a frame; on an error of the generation the frame ends
\* there (next_frame().await; continue).
HostRecalculate(enter, save) ==
    /\ program = "host"
    /\ host.pc = "recalculate"
    /\ LET name == get_image_filename(host.use_runge_kutta, initial_velocity,
                                      camera_offset, zoom_factor)
       IN host' =
            IF enter /\ host.needs_recalculation
            THEN IF name \in host.files
                 THEN texture_loaded(host, name, host.files)
                 ELSE IF save = "saved"
                      THEN texture_loaded(host, name, host.files \cup { name })
                      ELSE [host EXCEPT
                               !.files = IF save = "failed_partial"
                                         THEN @ \cup { name } ELSE @,
                               !.frame = @ + 1,
                               !.pc = "keys"]
            ELSE texture_checked(host)
    /\ UNCHANGED << program, start_pos, initial_velocity, stationary_bodies,
                    integration_method, initial_bodies, camera_offset, zoom_factor,
                    runVars, callVars, sweepVars >>

inside_image(m) ==
    m.x >= 0 /\ m.x < Fx(IMAGE_SIZE) /\ m.y >= 0 /\ m.y < Fx(IMAGE_SIZE)

\* Lines 194-221: a click of the left button at m, inside the image.
clicked(h, m) ==
    [h EXCEPT
        !.selected_px = Some(TDiv(m.x, ONE)),
        !.selected_py = Some(TDiv(m.y, ONE)),
        !.live_simulation =
            Some(live_new(Vec2(FSub(FDiv(m.x, zoom_factor), camera_offset.x),
                               FSub(FDiv(m.y, zoom_factor), camera_offset.y)),
                          initial_velocity, stationary_bodies,
                          method_of(h.use_runge_kutta))),
        !.created = Some([ initial_velocity |-> initial_velocity,
                           use_runge_kutta  |-> h.use_runge_kutta,
                           frame            |-> h.frame ])]

\* Lines 223-229: sim.step() on the live simulation, if there is one.
stepped(h) ==
    IF h.live_simulation = None THEN h
    ELSE [h EXCEPT !.live_simulation =
                      Some([step(Unwrap(@)) EXCEPT !.calls = @ + 1])]

\* Lines 158-311 of a frame: `mouse` is None, or the place of a click.
HostDraw(mouse) ==
    /\ program = "host"
    /\ host.pc = "draw"
    /\ host' =
         [ (IF host.texture_option = None THEN host
            ELSE stepped(IF mouse # None /\ inside_image(Unwrap(mouse))
                         THEN clicked(host, Unwrap(mouse)) ELSE host))
           EXCEPT !.frame = @ + 1, !.pc = "keys" ]
    /\ UNCHANGED << program, start_pos, initial_velocity, stationary_bodies,
                    integration_method, initial_bodies, camera_offset, zoom_factor,
                    runVars, callVars, sweepVars >>

HostNext ==
    \/ \E keys \in KeySets : HostKeys(keys)
    \/ \E enter \in BOOLEAN, save \in SaveOutcomes : HostRecalculate(enter, save)
    \/ \E mouse \in { None } \cup { Some(m) : m \in MousePositions } : HostDraw(mouse)

SpecHost == HostInit /\ [][HostNext]_vars

(***************************************************************************)
(* The live simulation and the settings of the loop                        *)
(***************************************************************************)
\* The live simulation there is was made with the settings of now.
LiveIsCurrent ==
    host.live_simulation # None =>
        /\ host.created # None
        /\ Unwrap(host.created).initial_velocity = initial_velocity
        /\ Unwrap(host.created).use_runge_kutta = host.use_runge_kutta
        /\ Unwrap(host.live_simulation).integration_method =
              method_of(host.use_runge_kutta)
        /\ host.selected_px # None /\ host.selected_py # None

SettingsChange ==
    \/ initial_velocity' # initial_velocity
    \/ camera_offset' # camera_offset
    \/ zoom_factor' # zoom_factor
    \/ host'.use_runge_kutta # host.use_runge_kutta

\* A step of the loop, as far as the settings and the live simulation go.
HostStepKeepsOrder ==
    /\ SettingsChange =>
          /\ host.pc = "keys" /\ host'.pc = "recalculate"
          /\ host'.live_simulation = None
          /\ host'.selected_px = None /\ host'.selected_py = None
          /\ host'.needs_recalculation
    /\ host'.use_runge_kutta # host.use_runge_kutta =>
          /\ "Space" \in host'.keys
          /\ host'.use_runge_kutta = ~host.use_runge_kutta
    /\ host'.created # host.created =>
          /\ host.pc = "draw" /\ host'.pc = "keys"
          /\ host'.live_simulation # None
          /\ Unwrap(host'.created).frame = host.frame
    /\ (host.live_simulation # None /\ host'.live_simulation # None
        /\ host'.created = host.created) =>
          Unwrap(host'.live_simulation).integration_method =
             Unwrap(host.live_simulation).integration_method

\* C21: in the loop of main, at the end of every frame a live simulation
\* that exists was made with the initial velocity and the integration
\* method of now; a step that changes the velocity, the camera offset, the
\* zoom or the method is the key handling at the start of a frame, and it
\* leaves no live simulation and no selected pixel and needs_recalculation
\* set, a new simulation being made only later in the frame, by the click;
\* the method is RK4 when the loop starts and changes only by a toggle in a
\* frame whose keys include Space; the integration_method of a live
\* simulation stays what it was made with.
C21_LiveSimulationIsCurrent ==
    /\ [](program = "host" =>
            /\ (host.pc = "keys" => LiveIsCurrent)
            /\ (host.frame = 0 /\ host.pc = "keys" => host.use_runge_kutta))
    /\ [][program = "host" => HostStepKeepsOrder]_vars

\* The end of a frame in which Space was pressed while a simulation was
\* running and a click then started a new one, which has made its first
\* step with the Euler method.
C21_Witness ==
    /\ program = "host"
    /\ host.pc = "keys"
    /\ host.frame >= 2
    /\ "Space" \in host.keys
    /\ ~host.use_runge_kutta
    /\ host.live_simulation # None
    /\ Unwrap(host.created).frame = host.frame - 1
    /\ Unwrap(host.live_simulation).integration_method = "Euler"
    /\ Unwrap(host.live_simulation).current_timestep = 1
    /\ host.needs_recalculation

====
